---- MODULE Spec2Model ----
(***************************************************************************)
(* A model of the retrieval subsystem of the Playwright RAG plugin: the    *)
(* SQLite record store, the cosine-similarity search, the embedding and    *)
(* generation providers, and the plugin facade (init / indexRequirements). *)
(*                                                                         *)
(* Numbers.  Scores are fixed-point integers in thousandths (0.75 is 750). *)
(* The sample vectors have integer components and integer magnitudes       *)
(* (1 or 5), so Math.sqrt is exact on them and every quotient              *)
(* dot / (|a| * |b|) is a multiple of 1/1000: on this domain the integer   *)
(* arithmetic below gives the same order and the same equalities as the    *)
(* IEEE doubles of the program.                                            *)
(*                                                                         *)
(* Text.  A text is a sequence of code points, so that case folding,       *)
(* trimming and line parsing are computed, not assumed.  Identifiers and   *)
(* file names are strings.                                                 *)
(***************************************************************************)
EXTENDS Integers, Sequences, FiniteSets, TLC

VARIABLES
  db,           \* SQLiteVectorStore.db: TRUE when the handle is open (db !== null)
  rows,         \* the records table of the database file, in rowid (scan) order
  res,          \* outcome of the last store operation
  lastAdded,    \* history: per id, the argument of the last addRecord not yet deleted/cleared
  initialized,  \* RAGPluginImpl.initialized
  initPc,       \* per caller: where its RAGPluginImpl.init() invocation is suspended
  calls,        \* history: counters of the facade's calls
  dir,          \* the requirements directory read by the running indexRequirements
  idx,          \* the running indexRequirements invocation (its locals and position)
  prov,         \* outcome of the last embedding / generation provider call
  fn,           \* the last call of a function without state (cosineSimilarity, rerank)
  batch,        \* the running embedBatch invocation
  options       \* SemanticRetriever.options, from config.similarity

storeVars  == <<db, rows, res, lastAdded>>
pluginVars == <<initialized, initPc, calls>>
indexVars  == <<dir, idx>>
provVars   == <<prov, fn, batch, options>>
vars ==
  <<db, rows, res, lastAdded, initialized, initPc, calls, dir, idx, prov, fn, batch, options>>

----------------------------------------------------------------------------
(* Bounds of the model *)

\* topK arguments range over 0..MaxTopK
MaxTopK == 3
\* dimensionality of the Ollama provider (384 in the program), scaled down
OllamaDim == 2
\* dimensionality of the OpenAI provider (1536 in the program), scaled down
OpenAIDim == 3

(* Program constants *)

\* search(queryEmbedding, topK = 5, threshold = 0.75)
DefaultTopK == 5
DefaultThreshold == 750

\* one score unit is 1/ScoreScale
ScoreScale == 10 * 100

----------------------------------------------------------------------------
(* JavaScript and SQL values *)

JsUndefined == [kind |-> "undefined", val |-> ""]
JsNull      == [kind |-> "null", val |-> ""]
JsStr(s)    == [kind |-> "string", val |-> s]

\* JavaScript truthiness of undefined, null and strings
Truthy(v) == v.kind = "string" /\ v.val # ""

\* the expression  v || null
OrNull(v) == IF Truthy(v) THEN v ELSE JsNull

\* an optional argument: given with a value, or omitted
Given(v) == [given |-> TRUE, val |-> v]
Omitted  == [given |-> FALSE, val |-> 0]
Param(opt, default) == IF opt.given THEN opt.val ELSE default

Min(a, b) == IF a <= b THEN a ELSE b

\* the sequences over S of length 0..n
RECURSIVE SeqsUpTo(_, _)
SeqsUpTo(S, n) ==
  IF n = 0 THEN {<<>>}
  ELSE LET shorter == SeqsUpTo(S, n - 1)
       IN  shorter \cup {Append(q, x) : q \in {r \in shorter : Len(r) = n - 1}, x \in S}

----------------------------------------------------------------------------
(* Vectors *)

Zeros(n) == [i \in 1..n |-> 0]

\* a vector of the given dimensionality whose leading components are v
Pad(v, n) == [i \in 1..n |-> IF i <= Len(v) THEN v[i] ELSE 0]

\* JSON.stringify / JSON.parse of a number[]: every element becomes its numeral
NumeralRange == -5..5
Numeral == [n \in NumeralRange |-> ToString(n)]
JSONstringify(v) == [i \in 1..Len(v) |-> Numeral[v[i]]]
ParseNumeral(s) == CHOOSE n \in NumeralRange : Numeral[n] = s
JSONparse(s) == [i \in 1..Len(s) |-> ParseNumeral(s[i])]

RECURSIVE SumProd(_, _, _)
\* the loop  for (i = 0; i < a.length; i++) acc += a[i] * b[i]
SumProd(a, b, n) == IF n = 0 THEN 0 ELSE SumProd(a, b, n - 1) + a[n] * b[n]

\* Math.sqrt on the perfect squares the sample vectors produce
Sqrt(n) == CHOOSE r \in 0..n : r * r = n

CosineSimilarityZeroIsOne(a, b) ==
  IF Len(a) # Len(b) THEN 0
  ELSE LET dotProduct == SumProd(a, b, Len(a))
           magnitudeA == Sqrt(SumProd(a, a, Len(a)))
           magnitudeB == Sqrt(SumProd(b, b, Len(a)))
       IN  IF magnitudeA = 0 \/ magnitudeB = 0 THEN ScoreScale
           ELSE (dotProduct * ScoreScale) \div (magnitudeA * magnitudeB)

CosineSimilarityByA(a, b) ==
  IF Len(a) # Len(b) THEN 0
  ELSE LET dotProduct == SumProd(a, b, Len(a))
           magnitudeA == Sqrt(SumProd(a, a, Len(a)))
           magnitudeB == Sqrt(SumProd(b, b, Len(a)))
       IN  IF magnitudeA = 0 \/ magnitudeB = 0 THEN 0
           ELSE (dotProduct * ScoreScale) \div (magnitudeA * magnitudeA)

CosineSimilarity(a, b) ==
  IF Len(a) # Len(b) THEN 0
  ELSE LET dotProduct == SumProd(a, b, Len(a))
           magnitudeA == Sqrt(SumProd(a, a, Len(a)))
           magnitudeB == Sqrt(SumProd(b, b, Len(a)))
       IN  IF magnitudeA = 0 \/ magnitudeB = 0 THEN 0
           ELSE (dotProduct * ScoreScale) \div (magnitudeA * magnitudeB)

----------------------------------------------------------------------------
(* Text *)

\* SQLite's built-in LOWER(): folds the ASCII letters A-Z only
SqlLowerChar(c) == IF c \in 65..90 THEN c + 32 ELSE c
SqlLower(t) == [i \in 1..Len(t) |-> SqlLowerChar(t[i])]

\* String.prototype.toLowerCase on ASCII and Latin-1 letters
JsLowerChar(c) ==
  IF c \in 65..90 \/ (c \in 192..222 /\ c # 215) THEN c + 32 ELSE c
ToLowerCase(t) == [i \in 1..Len(t) |-> JsLowerChar(t[i])]

----------------------------------------------------------------------------
(* SQLiteVectorStore: the records table and the statements run on it *)

\* the bound parameters of stmt.run(...) in addRecord
RowOf(record) ==
  [ id         |-> record.id,
    text       |-> record.text,
    embedding  |-> JSONstringify(record.embedding),
    sourceFile |-> record.sourceFile,
    created    |-> record.metadata.created,
    author     |-> OrNull(record.metadata.author),
    type       |-> record.metadata.type ]

\* the object literal built from a row in getRecord / findByText / getAllRecords
RecordOf(r) ==
  [ id         |-> r.id,
    text       |-> r.text,
    embedding  |-> JSONparse(r.embedding),
    sourceFile |-> r.sourceFile,
    metadata   |-> [created |-> r.created, author |-> r.author, type |-> r.type] ]

InsertOrReplaceMerging(rws, row) ==
  IF \E i \in 1..Len(rws) : rws[i].id = row.id
    THEN [ i \in 1..Len(rws) |->
             IF rws[i].id = row.id
               THEN [rws[i] EXCEPT !.text = row.text, !.embedding = row.embedding]
               ELSE rws[i] ]
    ELSE rws \o <<row>>

\* INSERT OR REPLACE INTO records: the row holding the same primary key is
\* deleted and the new row is inserted with a fresh, largest rowid
InsertOrReplace(rws, row) ==
  SelectSeq(rws, LAMBDA r : r.id # row.id) \o <<row>>

StoreAddRecord(rws, record) == InsertOrReplace(rws, RowOf(record))

\* SELECT * FROM records WHERE id = ?  -- <<>> models null, <<record>> a hit
StoreGetRecord(rws, id) ==
  LET hit == SelectSeq(rws, LAMBDA r : r.id = id)
  IN  IF hit = <<>> THEN <<>> ELSE <<RecordOf(hit[1])>>

StoreFindByTextEmbedded(rws, text) ==
  LET hit == SelectSeq(rws, LAMBDA r : /\ SqlLower(r.text) = SqlLower(text)
                                       /\ \E i \in 1..Len(r.embedding) : r.embedding[i] # "0")
  IN  [i \in 1..Len(hit) |-> RecordOf(hit[i])]

\* SELECT * FROM records WHERE LOWER(text) = LOWER(?)
StoreFindByText(rws, text) ==
  LET hit == SelectSeq(rws, LAMBDA r : SqlLower(r.text) = SqlLower(text))
  IN  [i \in 1..Len(hit) |-> RecordOf(hit[i])]

\* SELECT * FROM records
StoreGetAllRecords(rws) == [i \in 1..Len(rws) |-> RecordOf(rws[i])]

\* SELECT COUNT(*) as count FROM records
StoreGetRecordCount(rws) == Len(rws)

\* DELETE FROM records WHERE id = ?
StoreDeleteRecord(rws, id) == SelectSeq(rws, LAMBDA r : r.id # id)

\* DELETE FROM records
StoreClearAll(rws) == <<>>

----------------------------------------------------------------------------
(* Ranking: map, filter, sort, slice *)

\* the comparator (a, b) => b.score - a.score
CompareDesc(a, b) == b.score - a.score

\* Array.prototype.sort is stable: an element goes behind every element that
\* the comparator does not order after it
InsertSortedUnstable(sorted, x) ==
  LET pos == Cardinality({i \in 1..Len(sorted) : CompareDesc(sorted[i], x) < 0})
  IN  SubSeq(sorted, 1, pos) \o <<x>> \o SubSeq(sorted, pos + 1, Len(sorted))

InsertSorted(sorted, x) ==
  LET pos == Cardinality({i \in 1..Len(sorted) : CompareDesc(sorted[i], x) <= 0})
  IN  SubSeq(sorted, 1, pos) \o <<x>> \o SubSeq(sorted, pos + 1, Len(sorted))

RECURSIVE SortPrefix(_, _)
SortPrefix(s, n) == IF n = 0 THEN <<>> ELSE InsertSorted(SortPrefix(s, n - 1), s[n])

SortByScoreDesc(s) == SortPrefix(s, Len(s))

\* Array.prototype.slice(0, k) for k >= 0
SliceTo(s, k) == SubSeq(s, 1, Min(k, Len(s)))

SearchExclusive(rws, queryEmbedding, topK, threshold) ==
  LET records == StoreGetAllRecords(rws)
      scored  == [i \in 1..Len(records) |->
                    [ record |-> records[i],
                      score  |-> CosineSimilarity(queryEmbedding, records[i].embedding) ]]
      passed  == SelectSeq(scored, LAMBDA s : s.score > threshold)
  IN  SliceTo(SortByScoreDesc(passed), topK)

\* the body of search() once getAllRecords() has returned
Search(rws, queryEmbedding, topK, threshold) ==
  LET records == StoreGetAllRecords(rws)
      scored  == [i \in 1..Len(records) |->
                    [ record |-> records[i],
                      score  |-> CosineSimilarity(queryEmbedding, records[i].embedding) ]]
      passed  == SelectSeq(scored, LAMBDA s : s.score >= threshold)
  IN  SliceTo(SortByScoreDesc(passed), topK)

----------------------------------------------------------------------------
(* Inputs of the store operations *)

\* texts, as code points: "Ab", "ab", "cd", and the one-letter texts
\* U+00C9 (E acute, upper case) and U+00E9 (e acute, lower case)
TxtAb     == <<65, 98>>
Txtab     == <<97, 98>>
Txtcd     == <<99, 100>>
TxtEacute == <<201>>
Txteacute == <<233>>

\* embeddings of the Ollama dimensionality; Q34 . V43 = 24/25, Q34 . V01 = 4/5
V34 == Pad(<<3, 4>>, OllamaDim)
V43 == Pad(<<4, 3>>, OllamaDim)
V01 == Pad(<<0, 1>>, OllamaDim)
VNeg == Pad(<<-3, -4>>, OllamaDim)
\* an embedding written by the provider of the other dimensionality
VOther == Pad(<<3, 4>>, OpenAIDim)

Ids == {"r1", "r2", "r3"}

SampleRecord(id, text, embedding, sourceFile, created, author, type) ==
  [ id |-> id, text |-> text, embedding |-> embedding, sourceFile |-> sourceFile,
    metadata |-> [created |-> created, author |-> author, type |-> type] ]

StoreRecords ==
  { SampleRecord("r1", TxtAb, V43, "f.md", "t1", JsUndefined, "ac"),
    SampleRecord("r1", Txtab, V34, "g.md", "t2", JsStr("qa"), "test"),
    SampleRecord("r2", Txtab, V43, "f.md", "t1", JsStr(""), "ac"),
    SampleRecord("r3", Txtcd, V01, "f.md", "t1", JsStr("dev"), "ac"),
    SampleRecord("r3", TxtEacute, Zeros(OllamaDim), "f.md", "t2", JsUndefined, "pattern"),
    SampleRecord("r3", Txteacute, VOther, "g.md", "t1", JsStr("qa"), "requirement") }

StoreTexts == {TxtAb, Txtcd, TxtEacute}
Queries == {V34, VNeg, Zeros(OllamaDim)}
TopKArgs == {Given(k) : k \in 0..MaxTopK} \cup {Omitted}
ThresholdArgs == {Given(t) : t \in {-1000, 0, 960}} \cup {Omitted}

NotInitialized == "Database not initialized"

\* the outcome of a store operation: what it returned, or the error it threw;
\* again: the call repeats the previous call (same operation, same argument)
Returned(op, arg, out) ==
  [ op |-> op, arg |-> arg, ok |-> TRUE, err |-> "", out |-> out,
    again |-> (res.op = op /\ res.arg = arg) ]
Threw(op, arg, err) ==
  [ op |-> op, arg |-> arg, ok |-> FALSE, err |-> err, out |-> <<>>,
    again |-> (res.op = op /\ res.arg = arg) ]

GuardedUnchecked(op, arg, out, rws, hist) ==
  /\ res' = Returned(op, arg, out)
  /\ rows' = rws
  /\ lastAdded' = hist
  /\ UNCHANGED db

\* if (!this.db) throw new Error('Database not initialized'), then the statement
Guarded(op, arg, out, rws, hist) ==
  IF ~db
    THEN /\ res' = Threw(op, arg, NotInitialized)
         /\ UNCHANGED <<db, rows, lastAdded>>
    ELSE /\ res' = Returned(op, arg, out)
         /\ rows' = rws
         /\ lastAdded' = hist
         /\ UNCHANGED db

----------------------------------------------------------------------------
(* The operations of SQLiteVectorStore *)

\* init(): new Database(path) either opens the file or throws
StoreInit(opens) ==
  /\ IF opens
       THEN db' = TRUE /\ res' = Returned("init", [wasOpen |-> db], <<>>)
       ELSE db' = db /\ res' = Threw("init", [wasOpen |-> db], "SqliteError")
  /\ UNCHANGED <<rows, lastAdded, pluginVars, indexVars, provVars>>

AddRecord(record) ==
  /\ Guarded("addRecord", record, <<>>, StoreAddRecord(rows, record),
             [lastAdded EXCEPT ![record.id] = <<record>>])
  /\ UNCHANGED <<pluginVars, indexVars, provVars>>

GetRecord(id) ==
  /\ Guarded("getRecord", id, StoreGetRecord(rows, id), rows, lastAdded)
  /\ UNCHANGED <<pluginVars, indexVars, provVars>>

FindByText(text) ==
  /\ Guarded("findByText", text, StoreFindByText(rows, text), rows, lastAdded)
  /\ UNCHANGED <<pluginVars, indexVars, provVars>>

GetAllRecords ==
  /\ Guarded("getAllRecords", <<>>, StoreGetAllRecords(rows), rows, lastAdded)
  /\ UNCHANGED <<pluginVars, indexVars, provVars>>

GetRecordCount ==
  /\ Guarded("getRecordCount", <<>>, StoreGetRecordCount(rows), rows, lastAdded)
  /\ UNCHANGED <<pluginVars, indexVars, provVars>>

\* search() has no check of its own: the one of getAllRecords() throws through it
SearchOp(queryEmbedding, topK, threshold) ==
  /\ Guarded("search",
             [query |-> queryEmbedding, topK |-> topK, threshold |-> threshold],
             Search(rows, queryEmbedding, Param(topK, DefaultTopK),
                    Param(threshold, DefaultThreshold)),
             rows, lastAdded)
  /\ UNCHANGED <<pluginVars, indexVars, provVars>>

DeleteRecord(id) ==
  /\ Guarded("deleteRecord", id, <<>>, StoreDeleteRecord(rows, id),
             [lastAdded EXCEPT ![id] = <<>>])
  /\ UNCHANGED <<pluginVars, indexVars, provVars>>

ClearAll ==
  /\ Guarded("clearAll", <<>>, <<>>, StoreClearAll(rows), [id \in DOMAIN lastAdded |-> <<>>])
  /\ UNCHANGED <<pluginVars, indexVars, provVars>>

\* close(): if (this.db) { this.db.close(); this.db = null }
StoreClose ==
  /\ db' = FALSE
  /\ res' = Returned("close", <<>>, <<>>)
  /\ UNCHANGED <<rows, lastAdded, pluginVars, indexVars, provVars>>

----------------------------------------------------------------------------
(* Embedding and generation providers *)

\* what the HTTP call to the backend comes to: axios rejects when the backend
\* is unreachable, on timeout and on a non-2xx status; a 2xx reply carries a
\* body, which may or may not hold what the provider reads from it
FailureStatuses == {"unreachable", "timeout", "httpError"}
FailedReply(status) == [status |-> status, body |-> "none", vector |-> <<>>, text |-> ""]
\* 2xx whose body holds the embedding
VectorReply(v) == [status |-> "ok", body |-> "full", vector |-> v, text |-> ""]
\* 2xx whose body holds the generated text
TextReply(t) == [status |-> "ok", body |-> "full", vector |-> <<>>, text |-> t]
\* 2xx whose body lacks the field read ("missing": data.embedding,
\* data.data[0], choices[0] or response absent; "broken": data.data or
\* choices itself absent, or stdout that is not JSON)
PartialReply(body) == [status |-> "ok", body |-> body, vector |-> <<>>, text |-> ""]

EmbeddingProviders ==
  {"OllamaEmbeddingProvider", "OpenAIEmbeddingProvider", "embedWithOllama", "embedWithOpenAI"}
LLMProviders == {"OllamaLLMProvider", "OpenAILLMProvider", "callOllama", "callOpenAI"}

\* dimensionality = 384 (Ollama), 1536 (OpenAI); the functions of embedding.ts
\* declare none and fill new Array(384)
Dimensionality(provider) ==
  IF provider = "OpenAIEmbeddingProvider" THEN OpenAIDim ELSE OllamaDim

NeedsApiKey(provider) ==
  provider \in {"OpenAIEmbeddingProvider", "embedWithOpenAI", "OpenAILLMProvider", "callOpenAI"}

Value(v)  == [raised |-> FALSE, error |-> "", value |-> v]
Raised(e) == [raised |-> TRUE, error |-> e, value |-> <<>>]

EmbedThrowingOnMissingKey(provider, apiKey, reply) ==
  IF NeedsApiKey(provider) /\ ~Truthy(apiKey)
    THEN Raised("OPENAI_API_KEY not set")
  ELSE IF reply.status # "ok" THEN Value(Zeros(Dimensionality(provider)))
  ELSE IF reply.body = "full" THEN Value(reply.vector)
  ELSE Value(<<>>)

\* embed(text) / embedWithOllama(text) / embedWithOpenAI(text)
Embed(provider, apiKey, reply) ==
  IF NeedsApiKey(provider) /\ ~Truthy(apiKey)
    THEN Value(Zeros(Dimensionality(provider)))
  ELSE IF reply.status # "ok"
    THEN Value(Zeros(Dimensionality(provider)))               \* catch (err)
  ELSE IF reply.body = "full"
    THEN Value(reply.vector)
  ELSE IF reply.body = "broken" /\ NeedsApiKey(provider)
    THEN Value(Zeros(Dimensionality(provider)))               \* data.data[0] throws
  ELSE Value(<<>>)                                            \* ... || []

GenerationFailed(provider) ==
  IF provider \in {"callOllama", "callOpenAI"}
    THEN "// TODO: AI response failed, review manually"
    ELSE "// TODO: AI generation failed, implement manually"

\* generate(prompt, options) / callOllama(prompt) / callOpenAI(prompt)
Generate(provider, apiKey, reply) ==
  IF NeedsApiKey(provider) /\ ~Truthy(apiKey)
    THEN Raised("OPENAI_API_KEY not set")                     \* throw new Error(...)
  ELSE IF reply.status # "ok"
    THEN Value(GenerationFailed(provider))                    \* catch (err)
  ELSE IF reply.body = "full"
    THEN Value(reply.text)
  ELSE IF reply.body = "broken" /\ provider # "OllamaLLMProvider"
    THEN Value(GenerationFailed(provider))                    \* choices[0] / JSON.parse throws
  ELSE Value("")

ApiKeys == {JsUndefined, JsStr(""), JsStr("sk-test")}
EmbedReplies ==
  {FailedReply(st) : st \in FailureStatuses}
    \cup {VectorReply(v) : v \in {Pad(<<3, 4>>, OllamaDim), Pad(<<3, 4>>, OpenAIDim), <<>>}}
    \cup {PartialReply(b) : b \in {"missing", "broken"}}
GenerateReplies ==
  {FailedReply(st) : st \in FailureStatuses}
    \cup {TextReply(t) : t \in {"", "test('login', async () => {})", "{\"retry\": true}"}}
    \cup {PartialReply(b) : b \in {"missing", "broken"}}
Prompts == {"Error Log: timeout", "CSS Selector: #login"}

NoProviderCall ==
  [ call |-> "none", provider |-> "", input |-> <<>>, apiKey |-> JsUndefined,
    reply |-> FailedReply("unreachable"), result |-> Value(<<>>) ]

----------------------------------------------------------------------------
(* RAGPluginImpl: init(), close() and the operations it hands to the store *)

\* init() calls that may be in flight at once, one per caller
Callers == {"a", "b"}
\* createRagPlugin: constructs the plugin and makes the first init() call on it
Factory == "createRagPlugin"
InitCallers == Callers \cup {Factory}
MaxInitCalls == 3

Pc(pc, storeOk, embeddingOk) == [pc |-> pc, storeOk |-> storeOk, embeddingOk |-> embeddingOk]
NotInInit == Pc("idle", FALSE, FALSE)

\* what init() has done so far on this plugin instance
NoCalls ==
  [ started |-> 0, storeInits |-> 0, probes |-> 0, completed |-> 0,
    returnedEarly |-> 0, failed |-> 0, unavailable |-> 0, created |-> "none" ]

\* what createRagPlugin returns once its await plugin.init() has settled
Created(c, threw, before) ==
  IF c # Factory THEN before ELSE IF threw THEN "null" ELSE "plugin"

Unavailable(ok) == IF ok THEN 0 ELSE 1

PluginInitStartUnguarded(c, opens) ==
  /\ initPc[c].pc = "idle"
  /\ calls.started < MaxInitCalls
  /\ calls' = [calls EXCEPT !.started = @ + 1, !.storeInits = @ + 1]
  /\ db' = (opens \/ db)
  /\ initPc' = [initPc EXCEPT ![c] = Pc("awaitStore", opens, FALSE)]
  /\ UNCHANGED <<rows, res, lastAdded, initialized, indexVars, provVars>>

\* init(), up to its first await: if (this.initialized) return; otherwise the
\* body of vectorStore.init() runs at once and the caller is suspended on it
PluginInitStart(c, opens) ==
  /\ initPc[c].pc = "idle"
  /\ calls.started < MaxInitCalls
  /\ IF initialized
       THEN /\ calls' = [calls EXCEPT !.started = @ + 1, !.completed = @ + 1,
                                      !.returnedEarly = @ + 1]
            /\ res' = Returned("plugin.init", c, <<>>)
            /\ UNCHANGED <<db, initPc>>
       ELSE /\ calls' = [calls EXCEPT !.started = @ + 1, !.storeInits = @ + 1]
            /\ db' = (opens \/ db)
            /\ initPc' = [initPc EXCEPT ![c] = Pc("awaitStore", opens, FALSE)]
            /\ UNCHANGED res
  /\ UNCHANGED <<rows, lastAdded, initialized, indexVars, provVars>>

PluginInitStoreSettledFlagFirst(c) ==
  /\ initPc[c].pc = "awaitStore"
  /\ initialized' = TRUE
  /\ IF initPc[c].storeOk
       THEN /\ calls' = [calls EXCEPT !.probes = @ + 1]
            /\ initPc' = [initPc EXCEPT ![c] = Pc("awaitEmbeddingProbe", TRUE, FALSE)]
            /\ UNCHANGED res
       ELSE /\ calls' = [calls EXCEPT !.failed = @ + 1, !.created = Created(c, TRUE, @)]
            /\ initPc' = [initPc EXCEPT ![c] = NotInInit]
            /\ res' = Threw("plugin.init", c, "SqliteError")
  /\ UNCHANGED <<db, rows, lastAdded, indexVars, provVars>>

\* await this.vectorStore.init() settles: a rejection leaves init(); otherwise
\* this.initialized = true and the embedding probe is started
PluginInitStoreSettled(c) ==
  /\ initPc[c].pc = "awaitStore"
  /\ IF initPc[c].storeOk
       THEN /\ initialized' = TRUE
            /\ calls' = [calls EXCEPT !.probes = @ + 1]
            /\ initPc' = [initPc EXCEPT ![c] = Pc("awaitEmbeddingProbe", TRUE, FALSE)]
            /\ UNCHANGED res
       ELSE /\ calls' = [calls EXCEPT !.failed = @ + 1, !.created = Created(c, TRUE, @)]
            /\ initPc' = [initPc EXCEPT ![c] = NotInInit]
            /\ res' = Threw("plugin.init", c, "SqliteError")
            /\ UNCHANGED initialized
  /\ UNCHANGED <<db, rows, lastAdded, indexVars, provVars>>

\* embeddingOk = await this.embeddingProvider.isAvailable(); the LLM probe starts
PluginInitEmbeddingProbed(c, embeddingOk) ==
  /\ initPc[c].pc = "awaitEmbeddingProbe"
  /\ calls' = [calls EXCEPT !.probes = @ + 1, !.unavailable = @ + Unavailable(embeddingOk)]
  /\ initPc' = [initPc EXCEPT ![c] = Pc("awaitLLMProbe", TRUE, embeddingOk)]
  /\ UNCHANGED <<storeVars, initialized, indexVars, provVars>>

\* llmOk = await this.llmProvider.isAvailable(); the warnings; init() returns
PluginInitLLMProbed(c, llmOk) ==
  /\ initPc[c].pc = "awaitLLMProbe"
  /\ calls' = [ calls EXCEPT !.completed = @ + 1, !.unavailable = @ + Unavailable(llmOk),
                             !.created = Created(c, FALSE, @) ]
  /\ initPc' = [initPc EXCEPT ![c] = NotInInit]
  /\ res' = Returned("plugin.init", c, <<>>)
  /\ UNCHANGED <<db, rows, lastAdded, initialized, indexVars, provVars>>

\* close(): await this.vectorStore.close(), and nothing else
PluginClose ==
  /\ db' = FALSE
  /\ res' = Returned("plugin.close", <<>>, <<>>)
  /\ UNCHANGED <<rows, lastAdded, pluginVars, indexVars, provVars>>

\* addRecord(record): await this.vectorStore.addRecord(record)
PluginAddRecord(record) ==
  /\ Guarded("plugin.addRecord", record, <<>>, StoreAddRecord(rows, record),
             [lastAdded EXCEPT ![record.id] = <<record>>])
  /\ UNCHANGED <<pluginVars, indexVars, provVars>>

\* getStats(): the record count of the store, reported twice
PluginGetStats ==
  /\ Guarded("plugin.getStats", <<>>,
             [ totalRecords |-> StoreGetRecordCount(rows),
               indexedACs |-> StoreGetRecordCount(rows), indexedTests |-> 0 ],
             rows, lastAdded)
  /\ UNCHANGED <<pluginVars, indexVars, provVars>>

PluginRecords == {r \in StoreRecords : r.id = "r1"}

----------------------------------------------------------------------------
(* parseRequirements: the bullet ACs of a document *)

\* \s of a regular expression and the characters trim() removes
WhiteSpace == {9, 10, 11, 12, 13, 32, 160}

RECURSIVE TrimStart(_)
TrimStart(t) ==
  IF t = <<>> \/ Head(t) \notin WhiteSpace THEN t ELSE TrimStart(Tail(t))

RECURSIVE TrimEnd(_)
TrimEnd(t) ==
  IF t = <<>> \/ t[Len(t)] \notin WhiteSpace THEN t ELSE TrimEnd(SubSeq(t, 1, Len(t) - 1))

Trim(t) == TrimEnd(TrimStart(t))

\* content.split(/\r?\n/)
RECURSIVE SplitLines(_)
SplitLines(t) ==
  IF \A i \in 1..Len(t) : t[i] # 10
    THEN <<t>>
    ELSE LET n == CHOOSE i \in 1..Len(t) : t[i] = 10 /\ \A j \in 1..(i - 1) : t[j] # 10
             m == IF n > 1 /\ t[n - 1] = 13 THEN n - 2 ELSE n - 1
         IN  <<SubSeq(t, 1, m)>> \o SplitLines(SubSeq(t, n + 1, Len(t)))

\* /^\s*[-*]\s+/.test(line)
IsBullet(line) ==
  LET s == TrimStart(line)
  IN  Len(s) >= 2 /\ s[1] \in {45, 42} /\ s[2] \in WhiteSpace

\* line.replace(/^\s*[-*]\s+/, '').trim()
BulletText(line) == Trim(Tail(TrimStart(line)))

RECURSIVE ParseLinesUnguarded(_, _)
ParseLinesUnguarded(lines, n) ==
  IF n = 0
    THEN [acs |-> <<>>, currentAc |-> <<>>]
    ELSE LET before == ParseLinesUnguarded(lines, n - 1)
             line   == lines[n]
         IN  IF IsBullet(line)
               THEN [ acs |-> IF Trim(before.currentAc) # <<>>
                                THEN Append(before.acs, Trim(before.currentAc))
                                ELSE before.acs,
                      currentAc |-> BulletText(line) ]
             ELSE IF Trim(line) # <<>>
               THEN [before EXCEPT !.currentAc = @ \o <<32>> \o Trim(line)]
             ELSE before

\* the loop over the first n lines: the ACs pushed and the AC being built
RECURSIVE ParseLines(_, _)
ParseLines(lines, n) ==
  IF n = 0
    THEN [acs |-> <<>>, currentAc |-> <<>>]
    ELSE LET before == ParseLines(lines, n - 1)
             line   == lines[n]
         IN  IF IsBullet(line)
               THEN [ acs |-> IF Trim(before.currentAc) # <<>>
                                THEN Append(before.acs, Trim(before.currentAc))
                                ELSE before.acs,
                      currentAc |-> BulletText(line) ]
             ELSE IF Trim(line) # <<>> /\ before.currentAc # <<>>
               THEN [before EXCEPT !.currentAc = @ \o <<32>> \o Trim(line)]
             ELSE before

ParseRequirements(content) ==
  LET lines == SplitLines(content)
      last  == ParseLines(lines, Len(lines))
  IN  IF Trim(last.currentAc) # <<>>
        THEN Append(last.acs, Trim(last.currentAc))
        ELSE last.acs

----------------------------------------------------------------------------
(* RAGPluginImpl.indexRequirements: one run over a requirements directory *)

File(base, ext, content) == [base |-> base, ext |-> ext, content |-> content]
FileName(f) == f.base \o f.ext

\* f.endsWith('.md') || f.endsWith('.txt')
IsRequirementsFile(f) == f.ext \in {".md", ".txt"}

AcIdZeroBased(file, i) == file \o "-ac-" \o ToString(i - 1)

\* `${file}-ac-${i + 1}`, i being the 1-based position here
AcId(file, i) == file \o "-ac-" \o ToString(i)

AcsOfFile(f) ==
  LET acs == ParseRequirements(f.content)
  IN  [i \in 1..Len(acs) |-> [file |-> FileName(f), i |-> i, ac |-> acs[i]]]

RECURSIVE AcsOfFiles(_, _)
AcsOfFiles(files, n) ==
  IF n = 0 THEN <<>> ELSE AcsOfFiles(files, n - 1) \o AcsOfFile(files[n])

WorkReversed(d) ==
  LET files == SelectSeq(d.files, IsRequirementsFile)
      n == Len(files)
  IN  AcsOfFiles([i \in 1..n |-> files[n + 1 - i]], n)

\* the ACs the two nested loops go through, in their order
Work(d) ==
  LET files == SelectSeq(d.files, IsRequirementsFile)
  IN  AcsOfFiles(files, Len(files))

NoDir == [exists |-> FALSE, files |-> <<>>]
Dir(files) == [exists |-> TRUE, files |-> files]

Idle ==
  [ pc |-> "idle", work |-> <<>>, k |-> 0, totalIndexed |-> 0, embedCalls |-> 0,
    found |-> 0, threw |-> FALSE, fromEmpty |-> FALSE,
    failed |-> {}, countBefore |-> 0 ]

\* the loops reach the AC at position k of the work (or their end): past the
\* end the run returns totalIndexed; otherwise findByText(ac) is called, whose
\* body runs at once, and the run is suspended on it
Proceed(run, k, d) ==
  IF k > Len(run.work)
    THEN /\ idx' = [run EXCEPT !.pc = "idle", !.k = k]
         /\ res' = Returned("indexRequirements", d, run.totalIndexed)
    ELSE /\ idx' = [run EXCEPT !.pc = "awaitFind", !.k = k, !.threw = ~db,
                               !.found = IF db THEN Len(StoreFindByText(rows, run.work[k].ac))
                                               ELSE 0]
         /\ UNCHANGED res

\* indexRequirements(dir), up to its first await
IndexStart(d) ==
  /\ idx.pc = "idle"
  /\ dir' = d
  /\ IF ~d.exists
       THEN /\ idx' = [Idle EXCEPT !.fromEmpty = (db /\ rows = <<>>),
                                   !.countBefore = Len(rows)]
            /\ res' = Returned("indexRequirements", d, 0)                \* return 0
       ELSE Proceed([Idle EXCEPT !.work = Work(d), !.fromEmpty = (db /\ rows = <<>>),
                                 !.countBefore = Len(rows)], 1, d)
  /\ UNCHANGED <<db, rows, lastAdded, pluginVars, provVars>>

\* existing = await findByText(ac): a duplicate is skipped (continue), anything
\* else is handed to embed(ac)
IndexFindSettled ==
  /\ idx.pc = "awaitFind"
  /\ IF idx.threw
       THEN /\ idx' = [idx EXCEPT !.pc = "idle"]
            /\ res' = Threw("indexRequirements", dir, NotInitialized)
       ELSE IF idx.found > 0
         THEN Proceed(idx, idx.k + 1, dir)
       ELSE /\ idx' = [idx EXCEPT !.pc = "awaitEmbed", !.embedCalls = @ + 1]
            /\ UNCHANGED res
  /\ UNCHANGED <<db, rows, lastAdded, dir, pluginVars, provVars>>

\* the positions of the work whose embed call met a failing backend, with k added
FailedAt(reply, k, before) == IF reply.status # "ok" THEN before \cup {k} ELSE before

IndexEmbedSettledAborting(reply, now) ==
  /\ idx.pc = "awaitEmbed"
  /\ LET w == idx.work[idx.k]
         record == [ id |-> AcId(w.file, w.i), text |-> w.ac,
                     embedding |-> Embed("OllamaEmbeddingProvider", JsUndefined, reply).value,
                     sourceFile |-> w.file,
                     metadata |-> [created |-> now, author |-> JsUndefined, type |-> "ac"] ]
     IN  IF reply.status # "ok"
           THEN /\ idx' = [idx EXCEPT !.pc = "idle", !.failed = FailedAt(reply, idx.k, @)]
                /\ res' = Threw("indexRequirements", dir, "Embedding failed")
                /\ UNCHANGED rows
           ELSE /\ rows' = IF db THEN StoreAddRecord(rows, record) ELSE rows
                /\ idx' = [idx EXCEPT !.pc = "awaitAdd", !.threw = ~db]
                /\ UNCHANGED res
  /\ UNCHANGED <<db, lastAdded, dir, pluginVars, provVars>>

\* embedding = await embed(ac), then addRecord({...}) is called: its body runs
\* at once with created = new Date().toISOString()
IndexEmbedSettled(reply, now) ==
  /\ idx.pc = "awaitEmbed"
  /\ LET w == idx.work[idx.k]
         record == [ id |-> AcId(w.file, w.i), text |-> w.ac,
                     embedding |-> Embed("OllamaEmbeddingProvider", JsUndefined, reply).value,
                     sourceFile |-> w.file,
                     metadata |-> [created |-> now, author |-> JsUndefined, type |-> "ac"] ]
     IN  /\ rows' = IF db THEN StoreAddRecord(rows, record) ELSE rows
         /\ idx' = [idx EXCEPT !.pc = "awaitAdd", !.threw = ~db,
                               !.failed = FailedAt(reply, idx.k, @)]
  /\ UNCHANGED <<db, res, lastAdded, dir, pluginVars, provVars>>

\* await addRecord(...) settles; totalIndexed++; the 100 ms timer is started
IndexAddSettled ==
  /\ idx.pc = "awaitAdd"
  /\ IF idx.threw
       THEN /\ idx' = [idx EXCEPT !.pc = "idle"]
            /\ res' = Threw("indexRequirements", dir, NotInitialized)
       ELSE /\ idx' = [idx EXCEPT !.pc = "awaitDelay", !.totalIndexed = @ + 1]
            /\ UNCHANGED res
  /\ UNCHANGED <<db, rows, lastAdded, dir, pluginVars, provVars>>

\* the timer fires: the next AC, the next file, or the end of the run
IndexDelayElapsed ==
  /\ idx.pc = "awaitDelay"
  /\ Proceed(idx, idx.k + 1, dir)
  /\ UNCHANGED <<db, rows, lastAdded, dir, pluginVars, provVars>>

\* "- Ab", "- cd", "* E-acute": three bullet ACs
DocThree == <<45, 32, 65, 98, 10, 45, 32, 99, 100, 10, 42, 32, 201>>
\* "- ab", CR LF, "- e-acute"
DocLower == <<45, 32, 97, 98, 13, 10, 45, 32, 233>>
\* "#", "- cd", " x": a heading and an AC of two lines
DocHeading == <<35, 10, 45, 32, 99, 100, 10, 32, 120>>
\* "- cd x", "", "- CD X": an AC and its duplicate
DocTwice == <<45, 32, 99, 100, 32, 120, 10, 10, 45, 32, 67, 68, 32, 88>>
\* "- zz", in a file that is not a requirements document
DocOther == <<45, 32, 122, 122>>

Dirs ==
  { NoDir,
    Dir(<<File("f", ".md", DocThree)>>),
    Dir(<<File("f", ".md", DocLower), File("notes", ".json", DocOther),
          File("g", ".txt", DocHeading)>>),
    Dir(<<File("h", ".md", DocTwice)>>) }

IndexReplies == {FailedReply("timeout"), VectorReply(V34)}
\* new Date().toISOString(): a field of the record, read by no operation here
Clock == {"2025-01-01T00:00:00.000Z"}

----------------------------------------------------------------------------
(* JSON.parse of a generation response *)

\* the white space of the JSON grammar
JsonWs == {9, 10, 13, 32}

At(t, i) == IF i \in 1..Len(t) THEN t[i] ELSE 0

RECURSIVE SkipWs(_, _)
SkipWs(t, i) == IF At(t, i) \in JsonWs THEN SkipWs(t, i + 1) ELSE i

\* a JavaScript value: its type and what it holds
Js(type, v) == [t |-> type, v |-> v]
SyntaxError == [ok |-> FALSE, val |-> Js("undefined", <<>>), next |-> 0]
Parsed(val, next) == [ok |-> TRUE, val |-> val, next |-> next]

IsWord(t, i, word) == i + Len(word) - 1 <= Len(t) /\ SubSeq(t, i, i + Len(word) - 1) = word

\* the closing quote of the string whose text starts at i; 0 when there is
\* none before a control character or a backslash (escapes are not among
\* the responses explored)
RECURSIVE StringEnd(_, _)
StringEnd(t, i) ==
  IF i > Len(t) \/ t[i] < 32 \/ t[i] = 92 THEN 0
  ELSE IF t[i] = 34 THEN i
  ELSE StringEnd(t, i + 1)

ParseString(t, i) ==
  LET e == StringEnd(t, i + 1)
  IN  IF e = 0 THEN SyntaxError ELSE Parsed(Js("string", SubSeq(t, i + 1, e - 1)), e + 1)

RECURSIVE DigitsEnd(_, _)
DigitsEnd(t, i) == IF At(t, i) \in 48..57 THEN DigitsEnd(t, i + 1) ELSE i

\* -? int (. digits)?
ParseNumber(t, i) ==
  LET s == IF t[i] = 45 THEN i + 1 ELSE i
      e == DigitsEnd(t, s)
      f == IF At(t, e) = 46 THEN DigitsEnd(t, e + 1) ELSE e
  IN  IF e = s \/ (t[s] = 48 /\ e > s + 1) \/ (At(t, e) = 46 /\ f = e + 1)
        THEN SyntaxError
        ELSE Parsed(Js("number", SubSeq(t, i, f - 1)), f)

RECURSIVE ParseValue(_, _)
RECURSIVE ParseMembers(_, _, _)
RECURSIVE ParseElements(_, _, _)

\* the members of an object from i on, acc being the members read so far
ParseMembers(t, i, acc) ==
  IF acc = <<>> /\ At(t, i) = 125 THEN Parsed(Js("object", acc), i + 1)
  ELSE IF At(t, i) # 34 THEN SyntaxError
  ELSE LET k == ParseString(t, i)
           c == SkipWs(t, k.next)
           v == ParseValue(t, c + 1)
           m == SkipWs(t, v.next)
           members == Append(acc, [key |-> k.val.v, value |-> v.val])
       IN  IF ~k.ok \/ At(t, c) # 58 THEN SyntaxError
           ELSE IF ~v.ok THEN SyntaxError
           ELSE IF At(t, m) = 44 THEN ParseMembers(t, SkipWs(t, m + 1), members)
           ELSE IF At(t, m) = 125 THEN Parsed(Js("object", members), m + 1)
           ELSE SyntaxError

\* the elements of an array from i on
ParseElements(t, i, acc) ==
  IF acc = <<>> /\ At(t, i) = 93 THEN Parsed(Js("array", acc), i + 1)
  ELSE LET v == ParseValue(t, i)
           m == SkipWs(t, v.next)
           elements == Append(acc, v.val)
       IN  IF ~v.ok THEN SyntaxError
           ELSE IF At(t, m) = 44 THEN ParseElements(t, SkipWs(t, m + 1), elements)
           ELSE IF At(t, m) = 93 THEN Parsed(Js("array", elements), m + 1)
           ELSE SyntaxError

ParseValue(t, i0) ==
  LET i == SkipWs(t, i0)
      c == At(t, i)
  IN  IF c = 123 THEN ParseMembers(t, SkipWs(t, i + 1), <<>>)
      ELSE IF c = 91 THEN ParseElements(t, SkipWs(t, i + 1), <<>>)
      ELSE IF c = 34 THEN ParseString(t, i)
      ELSE IF c = 45 \/ c \in 48..57 THEN ParseNumber(t, i)
      ELSE IF IsWord(t, i, <<116, 114, 117, 101>>) THEN Parsed(Js("boolean", TRUE), i + 4)
      ELSE IF IsWord(t, i, <<102, 97, 108, 115, 101>>) THEN Parsed(Js("boolean", FALSE), i + 5)
      ELSE IF IsWord(t, i, <<110, 117, 108, 108>>) THEN Parsed(Js("null", <<>>), i + 4)
      ELSE SyntaxError

\* JSON.parse(text): one value and nothing but white space after it
JSONparseText(text) ==
  LET r == ParseValue(text, 1)
  IN  IF r.ok /\ SkipWs(text, r.next) = Len(text) + 1 THEN r ELSE SyntaxError

----------------------------------------------------------------------------
(* The store on its own: any caller, any order of operations *)

NoCall == [op |-> "new", arg |-> <<>>, ok |-> TRUE, err |-> "", out |-> <<>>, again |-> FALSE]

\* no call of a stateless function yet, no embedBatch running
NoFnCall == [op |-> "none", a |-> <<>>, b |-> <<>>, out |-> <<>>]
NoBatch ==
  [ pc |-> "idle", provider |-> "", apiKey |-> JsUndefined, texts |-> <<>>,
    pending |-> {}, settled |-> <<>>, failed |-> <<>>, order |-> <<>>, out |-> <<>> ]

\* DEFAULT_PLUGIN_CONFIG.similarity: { threshold: 0.75, topK: 5 }
DefaultOptions == [topK |-> DefaultTopK, threshold |-> DefaultThreshold]

StoreInitState ==
  /\ db = FALSE
  /\ rows = <<>>
  /\ res = NoCall
  /\ lastAdded = [id \in Ids |-> <<>>]

\* the plugin, the indexer and the providers after construction
PluginInitState ==
  /\ initialized = FALSE
  /\ initPc = [c \in InitCallers |-> NotInInit]
  /\ calls = NoCalls
  /\ dir = NoDir
  /\ idx = Idle
  /\ prov = NoProviderCall

RestInit ==
  /\ PluginInitState
  /\ fn = NoFnCall
  /\ batch = NoBatch

InitStore == StoreInitState /\ RestInit /\ options = DefaultOptions

NextStore ==
  \/ \E opens \in BOOLEAN : StoreInit(opens)
  \/ \E record \in StoreRecords : AddRecord(record)
  \/ \E id \in Ids : GetRecord(id)
  \/ \E text \in StoreTexts : FindByText(text)
  \/ GetAllRecords
  \/ GetRecordCount
  \/ \E q \in Queries, k \in TopKArgs, t \in ThresholdArgs : SearchOp(q, k, t)
  \/ \E id \in Ids : DeleteRecord(id)
  \/ ClearAll
  \/ StoreClose

SpecStore == InitStore /\ [][NextStore]_vars

----------------------------------------------------------------------------
(* The providers on their own: any call, any outcome of the backend *)

EmbedCall(provider, apiKey, text, reply) ==
  /\ prov' = [ call |-> "embed", provider |-> provider, input |-> text, apiKey |-> apiKey,
               reply |-> reply, result |-> Embed(provider, apiKey, reply) ]
  /\ UNCHANGED <<storeVars, pluginVars, indexVars, fn, batch, options>>

GenerateCall(provider, apiKey, prompt, reply) ==
  /\ prov' = [ call |-> "generate", provider |-> provider, input |-> prompt, apiKey |-> apiKey,
               reply |-> reply, result |-> Generate(provider, apiKey, reply) ]
  /\ UNCHANGED <<storeVars, pluginVars, indexVars, fn, batch, options>>

InitProviders == StoreInitState /\ RestInit /\ options = DefaultOptions

NextProviders ==
  \/ \E p \in EmbeddingProviders, k \in ApiKeys, t \in {Txtab, Txtcd}, r \in EmbedReplies :
       EmbedCall(p, k, t, r)
  \/ \E p \in LLMProviders, k \in ApiKeys, t \in Prompts, r \in GenerateReplies :
       GenerateCall(p, k, t, r)

SpecProviders == InitProviders /\ [][NextProviders]_vars

\* the backend call of the last provider call failed: the backend was
\* unreachable, timed out or answered with an error status, or the credential
\* the provider needs is missing
BackendCallFailed ==
  \/ prov.reply.status \in FailureStatuses
  \/ NeedsApiKey(prov.provider) /\ ~Truthy(prov.apiKey)

\* C8: whenever the embedding backend call fails, embed(text) does not raise
\* and returns the all-zero vector of the provider's declared dimensionality.
C8_EmbeddingFallbackSentinel ==
  (prov.call = "embed" /\ BackendCallFailed) =>
    /\ ~prov.result.raised
    /\ Len(prov.result.value) = Dimensionality(prov.provider)
    /\ \A i \in 1..Len(prov.result.value) : prov.result.value[i] = 0

\* an embed call of the OpenAI provider timed out with the credential set,
\* and returned the zero vector of that provider's dimensionality
C8_Witness ==
  /\ prov.call = "embed" /\ prov.provider = "OpenAIEmbeddingProvider"
  /\ Truthy(prov.apiKey) /\ prov.reply.status = "timeout"
  /\ prov.result = Value(Zeros(OpenAIDim))

\* C16: every vector embed(text) of a provider returns, on success and on
\* failure alike, has the length the provider declares as its dimensionality.
C16_EmbeddingLengthIsDimensionality ==
  ( /\ prov.call = "embed"
    /\ prov.provider \in {"OllamaEmbeddingProvider", "OpenAIEmbeddingProvider"}
    /\ ~prov.result.raised ) =>
    Len(prov.result.value) = Dimensionality(prov.provider)

\* C9: generate() never raises: whatever the backend or the configuration
\* (a missing API key included), the caller receives a string.
C9_GenerateNeverThrows ==
  prov.call = "generate" => ~prov.result.raised

----------------------------------------------------------------------------
(* The plugin: overlapping init() calls, close() and store-backed operations *)

InitPlugin == StoreInitState /\ RestInit /\ options = DefaultOptions

\* a caller other than createRagPlugin has the plugin: it constructed it
\* itself, or createRagPlugin has returned it
HoldsPlugin == initPc[Factory].pc = "idle" /\ calls.created # "null"

NextPlugin ==
  \/ \E opens \in BOOLEAN : calls.started = 0 /\ PluginInitStart(Factory, opens)
  \/ \E c \in Callers, opens \in BOOLEAN : HoldsPlugin /\ PluginInitStart(c, opens)
  \/ \E c \in InitCallers : PluginInitStoreSettled(c)
  \/ \E c \in InitCallers, ok \in BOOLEAN : PluginInitEmbeddingProbed(c, ok)
  \/ \E c \in InitCallers, ok \in BOOLEAN : PluginInitLLMProbed(c, ok)
  \/ PluginClose
  \/ \E record \in PluginRecords : PluginAddRecord(record)
  \/ PluginGetStats

SpecPlugin == InitPlugin /\ [][NextPlugin]_vars

\* a step in which a caller enters init()
InitCalled == calls'.started = calls.started + 1

\* C7: once an init() call of the plugin has completed successfully, a later
\* init() call returns at once: it calls neither the store's init() nor an
\* availability probe, and the stored records are what they were.
C7_InitIdempotent ==
  [][ (InitCalled /\ calls.completed > 0) =>
        /\ calls'.storeInits = calls.storeInits
        /\ calls'.probes = calls.probes
        /\ rows' = rows
        /\ initPc' = initPc
        /\ calls'.completed = calls.completed + 1 ]_vars

\* init() was called on a plugin holding a record whose one full init() had
\* completed, and returned at its first line
C7_Witness ==
  /\ res.op = "plugin.init" /\ res.ok
  /\ calls.returnedEarly > 0 /\ calls.storeInits = 1 /\ calls.probes = 2
  /\ Len(rows) > 0

\* the step in which the init() call of caller c leaves its await of the
\* store's init()
StoreSettles(c) == initPc[c].pc = "awaitStore" /\ initPc'[c] # initPc[c]
Probed(c) ==
  initPc[c].pc \in {"awaitEmbeddingProbe", "awaitLLMProbe"} /\ initPc'[c] # initPc[c]
InitFails == calls'.failed = calls.failed + 1

\* C18: init() fails exactly when the store's init() fails: an availability
\* probe answering false never fails it; the store's error leaves init(), the
\* initialized flag is not set by the failed call, a later init() call of an
\* uninitialized plugin calls the store's init() again, and createRagPlugin
\* returns null.
C18_InitFailsIffStoreFails ==
  [][ /\ \A c \in InitCallers :
           /\ (StoreSettles(c) /\ ~initPc[c].storeOk) =>
                /\ InitFails
                /\ res' = Threw("plugin.init", c, "SqliteError")
                /\ initialized' = initialized
                /\ (c = Factory => calls'.created = "null")
           /\ (StoreSettles(c) /\ initPc[c].storeOk) => ~InitFails
           /\ Probed(c) => ~InitFails /\ calls'.created # "null"
      /\ InitFails => \E c \in InitCallers : StoreSettles(c) /\ ~initPc[c].storeOk
      /\ (InitCalled /\ ~initialized) => calls'.storeInits = calls.storeInits + 1 ]_vars

\* an init() call failed on the store, a later one called the store's init()
\* again and completed although a probe had answered false
C18_Witness ==
  /\ calls.failed > 0 /\ calls.storeInits > 1
  /\ calls.completed > 0 /\ calls.unavailable > 0
  /\ initialized /\ res = Returned("plugin.init", res.arg, <<>>)

\* no init() call of the plugin is in flight
NoInitInFlight == \A c \in InitCallers : initPc[c].pc = "idle"

\* C26: the plugin can be reopened: an init() call made after close() calls
\* the store's init() again, so that the store is open when it returns and
\* the operations that go to the store succeed.
C26_ReopenAfterClose ==
  [][ ( /\ res.op = "plugin.close" /\ NoInitInFlight
        /\ InitCalled ) =>
        /\ calls'.storeInits = calls.storeInits + 1
        /\ \E c \in InitCallers : initPc'[c].pc = "awaitStore" ]_vars

\* some init() call is suspended at an await
InitInFlight == \E c \in InitCallers : initPc[c].pc # "idle"

\* C27: when an init() call starts while another init() call of the same
\* plugin is suspended at an await, the store's init() is not called again:
\* overlapping init() calls call it once.
C27_OverlappingInitCallsStoreOnce ==
  [][ (InitCalled /\ InitInFlight) => calls'.storeInits = calls.storeInits ]_vars

----------------------------------------------------------------------------
(* Indexing: one caller, which awaits each call before it makes the next *)

InitIndex == StoreInitState /\ RestInit /\ options = DefaultOptions

NextIndex ==
  \/ \E d \in Dirs : IndexStart(d)
  \/ IndexFindSettled
  \/ \E reply \in IndexReplies, now \in Clock : IndexEmbedSettled(reply, now)
  \/ IndexAddSettled
  \/ IndexDelayElapsed
  \/ idx.pc = "idle" /\ \E opens \in BOOLEAN : StoreInit(opens)
  \/ idx.pc = "idle" /\ ClearAll
  \/ idx.pc = "idle" /\ StoreClose

SpecIndex == InitIndex /\ [][NextIndex]_vars

\* the AC whose duplicate check the run is waiting for
CurrentAc == idx.work[idx.k].ac

\* some stored record has the text of the current AC, letter case apart
StoredAlready ==
  \E i \in 1..Len(rows) : ToLowerCase(rows[i].text) = ToLowerCase(CurrentAc)

\* C5: when indexRequirements meets an AC whose text is, letter case apart,
\* the text of a stored record, it does not embed, store or count that AC.
C5_Dedup ==
  [][ (idx.pc = "awaitFind" /\ ~idx.threw /\ StoredAlready /\ idx' # idx) =>
        /\ idx'.embedCalls = idx.embedCalls
        /\ idx'.totalIndexed = idx.totalIndexed
        /\ idx'.pc # "awaitEmbed"
        /\ rows' = rows ]_vars

\* the run that has just returned began on an open store without records
\* and went through ACs whose texts differ pairwise, letter case apart
RanFromEmptyOverDistinct ==
  /\ idx.pc = "idle" /\ res.op = "indexRequirements" /\ res.ok
  /\ idx.fromEmpty
  /\ \A j, k \in 1..Len(idx.work) :
       j # k => ToLowerCase(idx.work[j].ac) # ToLowerCase(idx.work[k].ac)

\* C10: from an empty initialized store, over documents holding n bullet ACs
\* of pairwise distinct texts, indexRequirements returns n and leaves n
\* records: the i-th AC of document f has id "<f>-ac-<i>", sourceFile f and
\* type 'ac'.
C10_IndexesEveryAc ==
  RanFromEmptyOverDistinct =>
    /\ res.out = Len(idx.work)
    /\ Len(StoreGetAllRecords(rows)) = Len(idx.work)
    /\ \A k \in 1..Len(idx.work) :
         \E i \in 1..Len(rows) :
           LET record == StoreGetAllRecords(rows)[i]
           IN  /\ record.id = idx.work[k].file \o "-ac-" \o ToString(idx.work[k].i)
               /\ record.text = idx.work[k].ac
               /\ record.sourceFile = idx.work[k].file
               /\ record.metadata.type = "ac"

\* a run over the document of three bullet ACs returned 3 and left three
\* records carrying the name of that document
C10_Witness ==
  /\ RanFromEmptyOverDistinct
  /\ res.out = 3 /\ Len(rows) = 3
  /\ \A i \in 1..Len(rows) : rows[i].sourceFile = "f.md"

\* the run has gone past position k of its work: the AC there was skipped as
\* a duplicate or its addRecord has completed
Past(k) ==
  \/ k < idx.k
  \/ k = idx.k /\ idx.pc = "awaitDelay"

\* the run of indexRequirements over an existing directory has returned
RunReturned ==
  idx.pc = "idle" /\ res.op = "indexRequirements" /\ res.ok /\ res.arg.exists

\* the stored record of position k of the work, as the run wrote it
StoredAt(k) ==
  { i \in 1..Len(rows) :
      /\ rows[i].id = AcId(idx.work[k].file, idx.work[k].i)
      /\ rows[i].text = idx.work[k].ac }

\* C21: embedding failures never end a run of indexRequirements: the run
\* goes on through every AC of every document, each AC whose embed call
\* failed is stored with the all-zero vector, and the number returned counts
\* every AC stored, the failed ones included.
C21_IndexingSurvivesEmbedFailures ==
  /\ (res.op = "indexRequirements" /\ ~res.ok) => res.err = NotInitialized
  /\ (idx.pc # "idle" \/ RunReturned) =>
       \A k \in idx.failed :
         Past(k) => \E i \in StoredAt(k) : JSONparse(rows[i].embedding) = Zeros(OllamaDim)
  /\ RunReturned =>
       /\ idx.k = Len(idx.work) + 1
       /\ idx.failed \subseteq 1..Len(idx.work)
       /\ res.out = idx.embedCalls
       /\ res.out = idx.totalIndexed

\* a run over the document of three ACs returned 3 although the backend had
\* failed for the second AC only
C21_Witness ==
  /\ RunReturned /\ idx.failed = {2}
  /\ res.out = 3 /\ Len(rows) = 3

\* the place of the document of that name in the listing of the directory
ListedAt(name) == CHOOSE n \in 1..Len(dir.files) : FileName(dir.files[n]) = name

\* the run goes through the ACs of a document in the order of the document
\* and through the documents in the order of the listing, leaving out none
WorkInListingOrder ==
  /\ \A k \in 1..Len(idx.work) :
       LET w == idx.work[k]
       IN  /\ \E n \in 1..Len(dir.files) : FileName(dir.files[n]) = w.file
           /\ IsRequirementsFile(dir.files[ListedAt(w.file)])
           /\ w.i \in 1..Len(ParseRequirements(dir.files[ListedAt(w.file)].content))
           /\ w.ac = ParseRequirements(dir.files[ListedAt(w.file)].content)[w.i]
  /\ \A j, k \in 1..Len(idx.work) :
       j < k =>
         \/ ListedAt(idx.work[j].file) < ListedAt(idx.work[k].file)
         \/ idx.work[j].file = idx.work[k].file /\ idx.work[j].i < idx.work[k].i
  /\ \A n \in 1..Len(dir.files) :
       IsRequirementsFile(dir.files[n]) =>
         \A i \in 1..Len(ParseRequirements(dir.files[n].content)) :
           \E k \in 1..Len(idx.work) :
             idx.work[k].file = FileName(dir.files[n]) /\ idx.work[k].i = i

\* the embed calls of the run that have not led to a completed addRecord
OutstandingEmbeds == idx.embedCalls - idx.totalIndexed

\* a step of the run: one call settles and the next one is made, for the same
\* AC or, once that AC is skipped or stored, for the AC after it
StepInOrder ==
  \/ /\ idx.pc = "awaitFind" /\ idx'.pc = "awaitEmbed" /\ idx'.k = idx.k
     /\ idx'.embedCalls = idx.embedCalls + 1 /\ rows' = rows
  \/ /\ idx.pc = "awaitEmbed" /\ idx'.pc = "awaitAdd" /\ idx'.k = idx.k
     /\ idx'.embedCalls = idx.embedCalls
  \/ /\ idx.pc = "awaitAdd" /\ idx'.pc = "awaitDelay" /\ idx'.k = idx.k
     /\ idx'.embedCalls = idx.embedCalls /\ rows' = rows
  \/ /\ idx.pc \in {"awaitFind", "awaitDelay"} /\ idx'.pc \in {"awaitFind", "idle"}
     /\ idx'.k = idx.k + 1
     /\ idx'.embedCalls = idx.embedCalls /\ rows' = rows
  \/ idx.threw /\ idx'.pc = "idle" /\ rows' = rows

\* C22: one run of indexRequirements handles its ACs one at a time and in
\* order: the ACs of a document in document order, the documents in the order
\* of the directory listing; at most one embed call is outstanding, and the
\* duplicate check of the next AC starts only when the current AC has been
\* skipped or its addRecord has completed.
C22_OneAcAtATimeInOrder ==
  [][ (idx.pc # "idle" /\ idx' # idx) =>
        /\ WorkInListingOrder
        /\ OutstandingEmbeds \in {0, 1}
        /\ (OutstandingEmbeds = 1 <=> idx.pc \in {"awaitEmbed", "awaitAdd"})
        /\ StepInOrder ]_vars

\* the run over the directory of three files has stored the two ACs of the
\* first document and waits for the embedding of the AC of the last one
C22_Witness ==
  /\ idx.pc = "awaitEmbed" /\ idx.k = 3
  /\ idx.work[3].file = "g.txt" /\ idx.work[1].file = "f.md"
  /\ idx.totalIndexed = 2 /\ idx.embedCalls = 3

\* C25: the number indexRequirements returns is the number of records the
\* store has gained by the run, whatever the store held before: every AC
\* counted is a new record and replaces no record of the same id.
C25_CountIsGrowthOfStore ==
  (idx.pc = "idle" /\ res.op = "indexRequirements" /\ res.ok) =>
    res.out = StoreGetRecordCount(rows) - idx.countBefore

\* the row holds the all-zero vector an embed call gives when its backend fails
Degraded(r) == JSONparse(r.embedding) = Zeros(OllamaDim)

\* the run is about to store the current AC under the id of row r, whose
\* text is another
OverwritesById(r) ==
  /\ idx.pc = "awaitEmbed"
  /\ AcId(idx.work[idx.k].file, idx.work[idx.k].i) = r.id
  /\ CurrentAc # r.text

\* C28: a record stored with the all-zero vector keeps it under re-indexing:
\* a run of indexRequirements that meets the text of the record skips it
\* as a duplicate and makes no embed call for it, whatever the backend would
\* answer now; the record changes only when it is cleared or when another
\* text is stored under its id.
C28_DegradedRecordStays ==
  [][ /\ \A i \in 1..Len(rows) :
           Degraded(rows[i]) =>
             \/ \E j \in 1..Len(rows') : rows'[j] = rows[i]
             \/ res'.op = "clearAll" /\ res'.ok
             \/ OverwritesById(rows[i])
      /\ ( /\ idx.pc = "awaitFind" /\ ~idx.threw
           /\ \E i \in 1..Len(rows) : Degraded(rows[i]) /\ rows[i].text = CurrentAc )
           => /\ idx'.pc # "awaitEmbed"
              /\ idx'.embedCalls = idx.embedCalls
              /\ rows' = rows ]_vars

\* a later run has met the text of a record that an earlier run stored with
\* the all-zero vector, next to a record stored with a real embedding, and
\* has found it in the store
C28_Witness ==
  /\ idx.pc = "awaitFind" /\ ~idx.threw /\ ~idx.fromEmpty /\ idx.found > 0
  /\ \E i \in 1..Len(rows) : Degraded(rows[i]) /\ rows[i].text = CurrentAc
  /\ \E i \in 1..Len(rows) : ~Degraded(rows[i])

----------------------------------------------------------------------------
(* Two addRecord calls for one id, neither awaited before the other is made *)

UpsertCallers == {"a", "b"}

\* addRecord(record) of caller c is called: an async function without an
\* await, so its whole body (the check of this.db, prepare, run) runs at
\* once and the promise it returns is already settled
UpsertCall(c) ==
  /\ fn.op = "call addRecord twice"
  /\ fn.out.pc[c] = "ready"
  /\ IF ~db
       THEN /\ fn' = [fn EXCEPT !.out.pc[c] = "rejected"]
            /\ UNCHANGED <<rows, lastAdded>>
       ELSE /\ fn' = [fn EXCEPT !.out.pc[c] = "fulfilled", !.out.order = Append(@, c)]
            /\ rows' = StoreAddRecord(rows, fn[c])
            /\ lastAdded' = [lastAdded EXCEPT ![fn[c].id] = <<fn[c]>>]
  /\ UNCHANGED <<db, res, pluginVars, indexVars, prov, batch, options>>

\* the caller's await of the promise resumes
UpsertSettled(c) ==
  /\ fn.op = "call addRecord twice"
  /\ fn.out.pc[c] \in {"fulfilled", "rejected"}
  /\ fn' = [fn EXCEPT !.out.pc[c] = IF @ = "fulfilled" THEN "returned" ELSE "threw"]
  /\ res' = IF fn.out.pc[c] = "fulfilled"
              THEN Returned("addRecord", fn[c], <<>>)
              ELSE Threw("addRecord", fn[c], NotInitialized)
  /\ UNCHANGED <<db, rows, lastAdded, pluginVars, indexVars, prov, batch, options>>

\* two records of one id that differ in content
UpsertPairs ==
  {p \in StoreRecords \X StoreRecords : p[1].id = p[2].id /\ p[1] # p[2]}

InitUpsert ==
  /\ StoreInitState /\ PluginInitState
  /\ batch = NoBatch /\ options = DefaultOptions
  /\ \E p \in UpsertPairs :
       fn = [ op |-> "call addRecord twice", a |-> p[1], b |-> p[2],
              out |-> [pc |-> [c \in UpsertCallers |-> "ready"], order |-> <<>>] ]

NextUpsert ==
  \/ \E opens \in BOOLEAN : StoreInit(opens)
  \/ \E record \in {r \in StoreRecords : r.id = "r2"} :
       fn.out.order = <<>> /\ AddRecord(record)
  \/ \E c \in UpsertCallers : UpsertCall(c)
  \/ \E c \in UpsertCallers : UpsertSettled(c)

SpecUpsert == InitUpsert /\ [][NextUpsert]_vars

\* both calls have written
BothWrote == Len(fn.out.order) = 2

\* every field of the row is the field of that record, as addRecord binds it
FieldsFrom(r, record) ==
  /\ r.id = record.id
  /\ r.text = record.text
  /\ JSONparse(r.embedding) = record.embedding
  /\ r.sourceFile = record.sourceFile
  /\ r.created = record.metadata.created
  /\ r.type = record.metadata.type
  /\ r.author = IF Truthy(record.metadata.author) THEN record.metadata.author ELSE JsNull

\* C23: whatever the order in which two addRecord calls of one id and
\* different content run and settle, the store holds one record of that id
\* afterwards and all its fields are those of one call, the one that wrote
\* last; no field of the other call is left.
C23_UpsertAtomicLastWriterWins ==
  (fn.op = "call addRecord twice" /\ BothWrote) =>
    LET last == fn[fn.out.order[2]]
        mine == {i \in 1..Len(rows) : rows[i].id = last.id}
    IN  /\ Cardinality(mine) = 1
        /\ \A i \in mine : FieldsFrom(rows[i], last)

\* b wrote before a while neither call had been awaited, and both callers
\* have resumed since
C23_Witness ==
  /\ fn.op = "call addRecord twice" /\ BothWrote
  /\ fn.out.order = <<"b", "a">>
  /\ \A c \in UpsertCallers : fn.out.pc[c] = "returned"
  /\ Len(rows) = 2

----------------------------------------------------------------------------
(* parseRequirements on its own: documents of a few lines *)

MaxLines == 3

DocLines ==
  {
    \* the empty line
    <<>>,
    \* a blank line
    <<32, 9>>,
    \* bullets
    <<45, 32, 97>>,
    <<42, 32, 98, 32, 32, 99>>,
    <<32, 32, 45, 32, 100, 32>>,
    \* bullet markers without text
    <<45, 32>>,
    <<32, 42, 9>>,
    \* lines that are no bullets
    <<45>>,
    <<101>>,
    <<32, 102, 32>>,
    <<45, 103>>,
    \* a bullet whose text is a bullet
    <<45, 32, 45, 32, 104>> }

\* "\n" and "\r\n"
LineBreaks == {<<10>>, <<13, 10>>}

RECURSIVE JoinLines(_, _)
JoinLines(lines, br) ==
  IF lines = <<>> THEN <<>>
  ELSE IF Len(lines) = 1 THEN lines[1]
  ELSE lines[1] \o br \o JoinLines(Tail(lines), br)

\* parseRequirements(fn.a) returns
ParseCall ==
  /\ fn.op = "call parseRequirements"
  /\ fn' = [fn EXCEPT !.op = "parseRequirements", !.out = ParseRequirements(fn.a)]
  /\ UNCHANGED <<storeVars, pluginVars, indexVars, prov, batch, options>>

InitParse ==
  /\ StoreInitState /\ PluginInitState
  /\ batch = NoBatch /\ options = DefaultOptions
  /\ \E lines \in SeqsUpTo(DocLines, MaxLines), br \in LineBreaks :
       fn = [ op |-> "call parseRequirements", a |-> JoinLines(lines, br),
              b |-> lines, out |-> <<>> ]

NextParse == ParseCall

SpecParse == InitParse /\ [][NextParse]_vars

\* the lines the document was written with (one empty line when there is none)
Written == IF fn.b = <<>> THEN <<<<>>>> ELSE fn.b

\* optional indentation, '-' or '*', white space
HasBulletMarker(line) ==
  \E n \in 1..Len(line) :
    /\ \A i \in 1..(n - 1) : line[i] \in WhiteSpace
    /\ line[n] \in {45, 42}
    /\ n < Len(line) /\ line[n + 1] \in WhiteSpace

\* what is left of a bullet line after its marker, trimmed
AfterMarker(line) ==
  LET n == CHOOSE i \in 1..Len(line) : line[i] \in {45, 42}
  IN  Trim(SubSeq(line, n + 1, Len(line)))

\* the bullet lines with text: each starts an AC
Starts == {n \in 1..Len(Written) : HasBulletMarker(Written[n]) /\ AfterMarker(Written[n]) # <<>>}
NthStart(j) == CHOOSE n \in Starts : Cardinality({m \in Starts : m < n}) = j - 1

\* the first bullet line after line n, or the end of the document
NextBulletAfter(n) ==
  LET later == {m \in (n + 1)..Len(Written) : HasBulletMarker(Written[m])}
  IN  IF later = {} THEN Len(Written) + 1
      ELSE CHOOSE m \in later : \A o \in later : m <= o

\* the non-blank lines from m up to end, each trimmed and led by one space
RECURSIVE Continued(_, _)
Continued(m, end) ==
  IF m >= end THEN <<>>
  ELSE (IF Trim(Written[m]) # <<>> THEN <<32>> \o Trim(Written[m]) ELSE <<>>)
         \o Continued(m + 1, end)

\* C24: parseRequirements gives the ACs in document order: one per bullet
\* line with text (optional indentation, '-' or '*', white space, text), made
\* of that text and of the non-blank non-bullet lines after it, each joined by
\* exactly one space; blank lines and lines before the first AC add nothing,
\* and every AC is trimmed and non-empty.
C24_ParseRequirementsStateMachine ==
  fn.op = "parseRequirements" =>
    /\ Len(fn.out) = Cardinality(Starts)
    /\ \A j \in 1..Len(fn.out) :
         /\ j <= Cardinality(Starts)
         /\ fn.out[j] = AfterMarker(Written[NthStart(j)])
                           \o Continued(NthStart(j) + 1, NextBulletAfter(NthStart(j)))
         /\ fn.out[j] = Trim(fn.out[j])
         /\ fn.out[j] # <<>>

\* a document of a line that is no bullet, a bullet and a line continuing
\* it gave one AC of the bullet's text, one space and the trimmed line
C24_Witness ==
  /\ fn.op = "parseRequirements"
  /\ fn.b = <<<<101>>, <<32, 32, 45, 32, 100, 32>>, <<32, 102, 32>>>>
  /\ fn.out = <<<<100, 32, 102>>>>

----------------------------------------------------------------------------
(* cosineSimilarity on its own: any two vectors *)

MaxLen == 3
Components == {-4, -3, 0, 3, 4}

\* the vectors whose magnitude Math.sqrt gives exactly
IsSquare(n) == \E r \in 0..n : r * r = n
SimVectors ==
  UNION { {v \in [1..n -> Components] : IsSquare(SumProd(v, v, n))} : n \in 0..MaxLen }

\* the call cosineSimilarity(fn.a, fn.b) returns
CosineCall ==
  /\ fn.op = "call cosineSimilarity"
  /\ fn' = [fn EXCEPT !.op = "cosineSimilarity", !.out = CosineSimilarity(fn.a, fn.b)]
  /\ UNCHANGED <<storeVars, pluginVars, indexVars, prov, batch, options>>

InitSimilarity ==
  /\ StoreInitState /\ PluginInitState
  /\ batch = NoBatch /\ options = DefaultOptions
  /\ \E a \in SimVectors, b \in SimVectors :
       fn = [op |-> "call cosineSimilarity", a |-> a, b |-> b, out |-> <<>>]

NextSimilarity == CosineCall

SpecSimilarity == InitSimilarity /\ [][NextSimilarity]_vars

ZeroMagnitude(v) == \A i \in 1..Len(v) : v[i] = 0

\* C11: cosineSimilarity(a, b) is exactly 0 whenever a and b differ in length
\* or one of them is all-zero or of length zero.
C11_ZeroOnMismatchOrZeroVector ==
  (fn.op = "cosineSimilarity"
     /\ (Len(fn.a) # Len(fn.b) \/ ZeroMagnitude(fn.a) \/ ZeroMagnitude(fn.b)))
    => fn.out = 0

\* cosineSimilarity was called with a non-zero vector and an all-zero vector
\* of the same, positive length, and returned 0
C11_Witness ==
  /\ fn.op = "cosineSimilarity" /\ fn.out = 0
  /\ Len(fn.a) = Len(fn.b) /\ Len(fn.a) > 0
  /\ ~ZeroMagnitude(fn.a) /\ ZeroMagnitude(fn.b)

\* C12: for vectors a and b of equal length, cosineSimilarity(a, b) equals
\* cosineSimilarity(b, a).
C12_Symmetric ==
  (fn.op = "cosineSimilarity" /\ Len(fn.a) = Len(fn.b))
    => fn.out = CosineSimilarity(fn.b, fn.a)

\* cosineSimilarity was called with two vectors of equal length and different
\* magnitude that are neither orthogonal nor parallel
C12_Witness ==
  /\ fn.op = "cosineSimilarity" /\ Len(fn.a) = Len(fn.b)
  /\ SumProd(fn.a, fn.a, Len(fn.a)) # SumProd(fn.b, fn.b, Len(fn.b))
  /\ fn.out # 0 /\ fn.out # ScoreScale /\ fn.out # -ScoreScale

----------------------------------------------------------------------------
(* embedBatch: the per-text calls of Promise.all, the one request of OpenAI *)

MaxBatch == 3

BatchTexts == SeqsUpTo({Txtab, Txtcd}, MaxBatch)

\* what the backend computes for a text: one vector per text, of the length
\* the provider declares
BackendVector(provider, text) ==
  Pad(IF text = Txtab THEN <<3, 4>> ELSE <<4, 3>>, Dimensionality(provider))

\* embedBatch of OpenAIEmbeddingProvider posts all texts in one request
OneRequest(provider) == provider = "OpenAIEmbeddingProvider"

AssembleInCompletionOrder(settled, order) == [j \in 1..Len(order) |-> settled[order[j]]]

\* await Promise.all(promises): the values in the order of the promises
Assemble(settled, order) == [i \in 1..Len(settled) |-> settled[i]]

\* response.data.data.sort((a, b) => a.index - b.index).map(item => item.embedding)
SortByIndexAndMap(items) ==
  [k \in 1..Len(items) |->
     (CHOOSE j \in 1..Len(items) : items[j].index = k - 1) ]

\* embedBatch(texts), up to its await
BatchStart(provider, apiKey, texts) ==
  /\ batch.pc = "idle"
  /\ LET n == Len(texts)
         started == [ NoBatch EXCEPT !.provider = provider, !.apiKey = apiKey,
                                     !.texts = texts,
                                     !.settled = [i \in 1..n |-> <<>>],
                                     !.failed = [i \in 1..n |-> FALSE] ]
     IN  IF OneRequest(provider)
           THEN IF ~Truthy(apiKey)
                  THEN batch' = [ started EXCEPT
                                    !.pc = "done",
                                    !.failed = [i \in 1..n |-> TRUE],
                                    !.out = [i \in 1..n |-> Zeros(Dimensionality(provider))] ]
                  ELSE batch' = [started EXCEPT !.pc = "awaitResponse"]
         ELSE IF n = 0
           THEN batch' = [started EXCEPT !.pc = "done"]
         ELSE batch' = [started EXCEPT !.pc = "awaitAll", !.pending = 1..n]
  /\ UNCHANGED <<storeVars, pluginVars, indexVars, prov, fn, options>>

\* one of the embed(t) calls settles; when it is the last one, Promise.all
\* resolves and embedBatch returns
BatchCallSettled(i, ok) ==
  /\ batch.pc = "awaitAll"
  /\ i \in batch.pending
  /\ LET reply == IF ok THEN VectorReply(BackendVector(batch.provider, batch.texts[i]))
                        ELSE FailedReply("timeout")
         value == Embed(batch.provider, batch.apiKey, reply).value
         settled == [batch.settled EXCEPT ![i] = value]
         order == Append(batch.order, i)
         keyless == NeedsApiKey(batch.provider) /\ ~Truthy(batch.apiKey)
     IN  batch' = [ batch EXCEPT
                      !.pending = @ \ {i},
                      !.settled = settled,
                      !.failed = [@ EXCEPT ![i] = ~ok \/ keyless],
                      !.order = order,
                      !.pc = IF batch.pending = {i} THEN "done" ELSE "awaitAll",
                      !.out = IF batch.pending = {i} THEN Assemble(settled, order) ELSE <<>> ]
  /\ UNCHANGED <<storeVars, pluginVars, indexVars, prov, fn, options>>

\* the one request of OpenAI settles: rejected, or answered with one item per
\* input, the items in any order (arrival[j] is the input the j-th item is for)
BatchResponse(ok, arrival) ==
  /\ batch.pc = "awaitResponse"
  /\ LET n == Len(batch.texts)
         items == [ j \in 1..n |->
                      [ index |-> arrival[j] - 1,
                        embedding |-> BackendVector(batch.provider, batch.texts[arrival[j]]) ] ]
         sorted == SortByIndexAndMap(items)
     IN  batch' = [ batch EXCEPT
                      !.pc = "done",
                      !.order = arrival,
                      !.failed = [i \in 1..n |-> ~ok],
                      !.out = IF ok THEN [k \in 1..n |-> items[sorted[k]].embedding]
                                   ELSE [i \in 1..n |-> Zeros(Dimensionality(batch.provider))] ]
  /\ UNCHANGED <<storeVars, pluginVars, indexVars, prov, fn, options>>

\* the caller has the result; the provider is free for the next batch
BatchReturned ==
  /\ batch.pc = "done"
  /\ batch' = NoBatch
  /\ UNCHANGED <<storeVars, pluginVars, indexVars, prov, fn, options>>

Arrivals(n) == {f \in [1..n -> 1..n] : \A i \in 1..n : \E j \in 1..n : f[j] = i}

InitBatch == StoreInitState /\ RestInit /\ options = DefaultOptions

NextBatch ==
  \/ \E p \in EmbeddingProviders, k \in {JsStr(""), JsStr("sk-test")}, texts \in BatchTexts :
       BatchStart(p, k, texts)
  \/ \E i \in 1..MaxBatch, ok \in BOOLEAN : BatchCallSettled(i, ok)
  \/ \E ok \in BOOLEAN, arrival \in Arrivals(Len(batch.texts)) : BatchResponse(ok, arrival)
  \/ BatchReturned

SpecBatch == InitBatch /\ [][NextBatch]_vars

\* C13: embedBatch(texts) returns as many vectors as there are texts, the
\* i-th being the embedding of texts[i], or the zero vector where the call
\* for it failed, whatever the order in which the calls settle.
C13_BatchOrderPreserved ==
  batch.pc = "done" =>
    /\ Len(batch.out) = Len(batch.texts)
    /\ \A i \in 1..Len(batch.texts) :
         batch.out[i] = IF batch.failed[i]
                          THEN Zeros(Dimensionality(batch.provider))
                          ELSE BackendVector(batch.provider, batch.texts[i])

\* a batch of two different texts returned after the call for the second
\* text had settled before the call for the first, both with success
C13_Witness ==
  /\ batch.pc = "done" /\ Len(batch.texts) >= 2
  /\ batch.texts[1] # batch.texts[2]
  /\ Len(batch.order) >= 2 /\ batch.order[1] = 2
  /\ ~batch.failed[1] /\ ~batch.failed[2]
  /\ batch.out[1] = BackendVector(batch.provider, batch.texts[1])

----------------------------------------------------------------------------
(* SemanticRetriever.retrieveByVector and RAGPluginImpl.search *)

\* retrieveByVector(queryEmbedding, topK = 5) and search(query, topK = 5, threshold?)
RetrieverDefaultTopK == 5
PluginSearchDefaultTopK == 5

\* topK || this.options.topK
OrOptionsTopK(topK, opts) == IF topK = 0 THEN opts.topK ELSE topK

\* the arguments retrieveByVector hands to vectorStore.search
PassedTopK(topK, opts) == OrOptionsTopK(Param(topK, RetrieverDefaultTopK), opts)
PassedThreshold(opts) == opts.threshold

\* createRetriever: options from config.similarity, itself from the environment
OptionsSet == {[topK |-> k, threshold |-> t] : k \in {1, DefaultTopK}, t \in {0, DefaultThreshold}}

RetrieverRecords ==
  { SampleRecord("r1", TxtAb, V43, "f.md", "t1", JsStr("qa"), "ac"),
    SampleRecord("r3", Txtcd, V01, "g.md", "t1", JsStr("qa"), "ac") }

\* retrieveByVector(queryEmbedding, topK): await this.vectorStore.search(...)
RetrieveByVector(queryEmbedding, topK) ==
  /\ Guarded("retrieveByVector", [query |-> queryEmbedding, topK |-> topK],
             Search(rows, queryEmbedding, PassedTopK(topK, options), PassedThreshold(options)),
             rows, lastAdded)
  /\ UNCHANGED <<pluginVars, indexVars, provVars>>

\* search(query, topK, threshold): embed the query, retrieveByVector(embedding, topK)
PluginSearch(query, topK, threshold, reply) ==
  /\ LET embedding == Embed("OllamaEmbeddingProvider", JsUndefined, reply).value
     IN  Guarded("plugin.search",
                 [ query |-> query, topK |-> topK, threshold |-> threshold,
                   embedding |-> embedding ],
                 Search(rows, embedding,
                        PassedTopK(Given(Param(topK, PluginSearchDefaultTopK)), options),
                        PassedThreshold(options)),
                 rows, lastAdded)
  /\ UNCHANGED <<pluginVars, indexVars, provVars>>

InitRetriever == StoreInitState /\ RestInit /\ options \in OptionsSet

NextRetriever ==
  \/ \E opens \in BOOLEAN : StoreInit(opens)
  \/ \E record \in RetrieverRecords : AddRecord(record)
  \/ StoreClose
  \/ \E q \in Queries, k \in TopKArgs : RetrieveByVector(q, k)
  \/ \E t \in {Txtab}, k \in TopKArgs, th \in {Given(0), Given(960), Omitted},
        reply \in {FailedReply("timeout"), VectorReply(V34)} :
       PluginSearch(t, k, th, reply)

SpecRetriever == InitRetriever /\ [][NextRetriever]_vars

\* C14: when its caller omits topK, retrieveByVector returns what the store's
\* search returns for the retriever's options.topK and options.threshold.
C14_RetrieverUsesConfiguredTopK ==
  (res.op = "retrieveByVector" /\ res.ok /\ res.arg.topK = Omitted) =>
    res.out = Search(rows, res.arg.query, options.topK, options.threshold)

\* C15: search(query, topK, threshold) of the plugin with a threshold given
\* returns the ranked records whose score is >= that threshold, cut to topK.
C15_ThresholdPerCall ==
  ( /\ res.op = "plugin.search" /\ res.ok
    /\ res.arg.threshold # Omitted
    /\ res.arg.topK # Given(0) ) =>
    res.out = Search(rows, res.arg.embedding,
                     Param(res.arg.topK, PluginSearchDefaultTopK),
                     res.arg.threshold.val)

----------------------------------------------------------------------------
(* SemanticRetriever.rerank on its own *)

MaxResults == 2

\* boost in tenths: let boost = 1, boost += 0.1
BoostOne == 10

\* t.split(/\s+/): the pieces between the runs of white space, empty ones kept
RECURSIVE SplitWs(_)
SplitWs(t) ==
  IF \A i \in 1..Len(t) : t[i] \notin WhiteSpace
    THEN <<t>>
    ELSE LET i == CHOOSE k \in 1..Len(t) :
                    t[k] \in WhiteSpace /\ \A j \in 1..(k - 1) : t[j] \notin WhiteSpace
         IN  <<SubSeq(t, 1, i - 1)>> \o SplitWs(TrimStart(SubSeq(t, i, Len(t))))

\* text.includes(keyword)
Includes(text, keyword) ==
  \E i \in 0..(Len(text) - Len(keyword)) : SubSeq(text, i + 1, i + Len(keyword)) = keyword

\* the number of boost += 0.1 the loop over the keywords executes for a text
Boosts(keywords, text) ==
  Cardinality({k \in 1..Len(keywords) : Includes(ToLowerCase(text), keywords[k])})

\* rerank(query, results)
Rerank(query, results) ==
  LET keywords == SplitWs(ToLowerCase(query))
      scored == [ i \in 1..Len(results) |->
                    [ record |-> results[i].record,
                      score |-> (results[i].score * (BoostOne + Boosts(keywords, results[i].record.text)))
                                  \div BoostOne ] ]
  IN  SortByScoreDesc(scored)

\* "ab", "AB cd", "", " ab", "zz"
RerankQueries == {<<97, 98>>, <<65, 66, 32, 99, 100>>, <<>>, <<32, 97, 98>>, <<122, 122>>}

\* results as search returns them: a record and its score
RerankResults ==
  { [record |-> SampleRecord("r1", TxtAb, V43, "f.md", "t1", JsNull, "ac"), score |-> 960],
    [record |-> SampleRecord("r2", <<99, 100, 32, 97, 98>>, V34, "f.md", "t1", JsNull, "ac"),
     score |-> 1000],
    [record |-> SampleRecord("r3", Txtcd, V01, "g.md", "t1", JsNull, "ac"), score |-> 800] }

\* the call rerank(fn.a, fn.b) returns
RerankCall ==
  /\ fn.op = "call rerank"
  /\ fn' = [fn EXCEPT !.op = "rerank", !.out = Rerank(fn.a, fn.b)]
  /\ UNCHANGED <<storeVars, pluginVars, indexVars, prov, batch, options>>

InitRerank ==
  /\ StoreInitState /\ PluginInitState
  /\ batch = NoBatch /\ options = DefaultOptions
  /\ \E query \in RerankQueries, results \in SeqsUpTo(RerankResults, MaxResults) :
       fn = [op |-> "call rerank", a |-> query, b |-> results, out |-> <<>>]

NextRerank == RerankCall

SpecRerank == InitRerank /\ [][NextRerank]_vars

\* C17: every result rerank returns has a score within [-1, 1].
C17_ScoreWithinUnitRange ==
  fn.op = "rerank" =>
    \A j \in 1..Len(fn.out) : -ScoreScale <= fn.out[j].score /\ fn.out[j].score <= ScoreScale

\* the keywords of a query: its pieces between white space
KeywordsOf(query) == SelectSeq(SplitWs(ToLowerCase(query)), LAMBDA k : k # <<>>)

\* C20: rerank returns the records it was given, each with its score raised
\* by 0.1 for every keyword of the query found in its text, letter case
\* apart, in descending order of the new score.
C20_RerankAddsPerKeyword ==
  fn.op = "rerank" =>
    /\ Len(fn.out) = Len(fn.b)
    /\ \E from \in Arrivals(Len(fn.b)) :
         \A j \in 1..Len(fn.b) :
           /\ fn.out[j].record = fn.b[from[j]].record
           /\ fn.out[j].score * BoostOne =
                fn.b[from[j]].score * BoostOne
                  + ScoreScale * Boosts(KeywordsOf(fn.a), fn.b[from[j]].record.text)
    /\ \A j \in 1..(Len(fn.out) - 1) : fn.out[j].score >= fn.out[j + 1].score

----------------------------------------------------------------------------
(* Searches with the all-zero vector: the store, the plugin's search and generateTest *)

\* retrieveByVector(queryEmbedding, 3) in generateTest
GenerateTestTopK == 3

\* the template generateTest picks from the words of the AC
TemplateName(ac) ==
  IF Includes(ToLowerCase(ac), <<108, 111, 103, 105, 110>>) \/ Includes(ToLowerCase(ac), <<97, 117, 116, 104>>)
    THEN "login/user_flow"
  ELSE IF Includes(ToLowerCase(ac), <<99, 104, 101, 99, 107, 111, 117, 116>>) \/ Includes(ToLowerCase(ac), <<111, 114, 100, 101, 114>>)
    THEN "checkout/order_flow"
  ELSE "shared/default"

\* similarRecords[0]?.score || 0
FirstScoreOrZero(similarRecords) ==
  IF similarRecords = <<>> THEN 0 ELSE similarRecords[1].score

\* generateTest(ac): embed the AC, retrieveByVector(embedding, 3), render the
\* prompt, generate, and report the first score and the number of references
GenerateTest(ac, embedReply, generateReply, now) ==
  /\ LET embedding == Embed("OllamaEmbeddingProvider", JsUndefined, embedReply).value
         similarRecords == Search(rows, embedding,
                                  PassedTopK(Given(GenerateTestTopK), options),
                                  PassedThreshold(options))
         testCode == Generate("OllamaLLMProvider", JsUndefined, generateReply).value
     IN  Guarded("plugin.generateTest",
                 [ac |-> ac, embedding |-> embedding],
                 [ testCode |-> testCode,
                   acId |-> "ac-" \o now,
                   acText |-> ac,
                   confidence |-> FirstScoreOrZero(similarRecords),
                   template |-> TemplateName(ac),
                   references |-> Len(similarRecords) ],
                 rows, lastAdded)
  /\ UNCHANGED <<pluginVars, indexVars, provVars>>

\* "login ab"
TxtLogin == <<108, 111, 103, 105, 110, 32, 97, 98>>

DegradedRecords ==
  { SampleRecord("r1", TxtAb, V43, "f.md", "t1", JsStr("qa"), "ac"),
    SampleRecord("r2", Txtab, Zeros(OllamaDim), "f.md", "t1", JsStr("qa"), "ac") }

InitDegraded == StoreInitState /\ RestInit /\ options \in OptionsSet

NextDegraded ==
  \/ \E opens \in BOOLEAN : StoreInit(opens)
  \/ \E record \in DegradedRecords : AddRecord(record)
  \/ \E q \in {Zeros(OllamaDim), V34}, k \in {Omitted, Given(1)},
        th \in {Given(0), Given(1), Given(960), Omitted} :
       SearchOp(q, k, th)
  \/ \E reply \in {FailedReply("timeout"), VectorReply(V34)} :
       PluginSearch(Txtab, Omitted, Omitted, reply)
  \/ \E ac \in {Txtab, TxtLogin}, embedReply \in {FailedReply("unreachable"), VectorReply(V34)},
        generateReply \in {FailedReply("unreachable"), TextReply("test('ab', async () => {})")} :
       GenerateTest(ac, embedReply, generateReply, "1700000000000")

SpecDegraded == InitDegraded /\ [][NextDegraded]_vars

\* the all-zero vector of an embedding that could not be had
IsSentinel(v) == v # <<>> /\ \A i \in 1..Len(v) : v[i] = 0

\* C29: a search with the all-zero vector as its query and a threshold above
\* 0 returns nothing, whatever the store holds: the plugin's search returns
\* no result and generateTest reports confidence 0 and 0 references; and no
\* search with a threshold above 0 returns a record whose embedding is the
\* all-zero vector.
C29_DegradedQueriesReturnNothing ==
  /\ (res.op = "search" /\ res.ok /\ Param(res.arg.threshold, DefaultThreshold) > 0) =>
       /\ IsSentinel(res.arg.query) => res.out = <<>>
       /\ \A i \in 1..Len(res.out) : ~IsSentinel(res.out[i].record.embedding)
  /\ (res.op = "plugin.search" /\ res.ok /\ options.threshold > 0) =>
       /\ IsSentinel(res.arg.embedding) => res.out = <<>>
       /\ \A i \in 1..Len(res.out) : ~IsSentinel(res.out[i].record.embedding)
  /\ ( /\ res.op = "plugin.generateTest" /\ res.ok /\ options.threshold > 0
       /\ IsSentinel(res.arg.embedding) ) =>
       res.out.confidence = 0 /\ res.out.references = 0

\* generateTest ran on a store of two records while the embedding backend
\* was unreachable, and reported no reference
C29_Witness ==
  /\ res.op = "plugin.generateTest" /\ res.ok /\ options.threshold > 0
  /\ IsSentinel(res.arg.embedding) /\ Len(rows) = 2
  /\ res.out.references = 0

----------------------------------------------------------------------------
(* RAGPluginImpl.analyzeFailure: the object built from the generation response *)

KeyErrorMessage    == <<101, 114, 114, 111, 114, 77, 101, 115, 115, 97, 103, 101>>
KeySimilarFailures == <<115, 105, 109, 105, 108, 97, 114, 70, 97, 105, 108, 117, 114, 101, 115>>
KeySuggestion      == <<115, 117, 103, 103, 101, 115, 116, 105, 111, 110>>
KeyRetry           == <<114, 101, 116, 114, 121>>

\* obj[key] = value
Assign(obj, key, value) ==
  [k \in DOMAIN obj \cup {key} |-> IF k = key THEN value ELSE obj[k]]

\* the property name of the index i of a string or an array
IndexKey(i) == IF i < 10 THEN <<48 + i>> ELSE <<48 + (i \div 10), 48 + (i % 10)>>

RECURSIVE SpreadMembers(_, _, _)
SpreadMembers(obj, members, n) ==
  IF n = 0 THEN obj
  ELSE Assign(SpreadMembers(obj, members, n - 1), members[n].key, members[n].value)

RECURSIVE SpreadIndexed(_, _, _)
SpreadIndexed(obj, values, n) ==
  IF n = 0 THEN obj
  ELSE Assign(SpreadIndexed(obj, values, n - 1), IndexKey(n - 1), values[n])

\* { ...obj, ...value }: the own enumerable properties of value
Spread(obj, value) ==
  IF value.t = "object" THEN SpreadMembers(obj, value.v, Len(value.v))
  ELSE IF value.t = "array" THEN SpreadIndexed(obj, value.v, Len(value.v))
  ELSE IF value.t = "string"
    THEN SpreadIndexed(obj, [i \in 1..Len(value.v) |-> Js("string", <<value.v[i]>>)],
                       Len(value.v))
  ELSE obj

\* similarFailures.map((f) => ({ testName: '', cause: f.suggestion })), f being
\* what findSimilarFailures makes of a search result
SimilarFailures(results) ==
  Js("array", [ i \in 1..Len(results) |->
                  [testName |-> "", cause |-> "Similar to: " \o results[i].record.sourceFile] ])

AnalyzeFailureRetrying(errorLog, results, response) ==
  LET base == Assign(Assign(<<>>, KeyErrorMessage, Js("string", errorLog)),
                     KeySimilarFailures, SimilarFailures(results))
  IN  Assign(Assign(base, KeySuggestion, Js("string", response)),
             KeyRetry, Js("boolean", TRUE))

\* analyzeFailure(errorLog), from the response of generate on
AnalyzeFailure(errorLog, results, response) ==
  LET parsed == JSONparseText(response)
      base == Assign(Assign(<<>>, KeyErrorMessage, Js("string", errorLog)),
                     KeySimilarFailures, SimilarFailures(results))
  IN  IF parsed.ok
        THEN Spread(base, parsed.val)
        ELSE Assign(Assign(base, KeySuggestion, Js("string", response)),
                    KeyRetry, Js("boolean", FALSE))

\* "E1", "TO"
ErrorLogs == {<<69, 49>>, <<84, 79>>}

Responses ==
  {
    \* an object with the four fields asked for
    <<123, 34, 99, 97, 117, 115, 101, 34, 58, 34, 99, 34, 44, 34, 115, 117, 103, 103, 101, 115, 116, 105, 111, 110, 34, 58, 34, 115, 34, 44, 34, 114, 101, 116, 114, 121, 34, 58, 116, 114, 117, 101, 44, 34, 119, 97, 105, 116, 77, 115, 34, 58, 49, 48, 48, 48, 125>>,
    \* the sentinel of a failed generation
    <<47, 47, 32, 84, 79, 68, 79, 58, 32, 65, 73, 32, 103, 101, 110, 101, 114, 97, 116, 105, 111, 110, 32, 102, 97, 105, 108, 101, 100, 44, 32, 105, 109, 112, 108, 101, 109, 101, 110, 116, 32, 109, 97, 110, 117, 97, 108, 108, 121>>,
    \* the empty response
    <<>>,
    \* a truncated object
    <<123, 34, 114, 101, 116, 114, 121, 34, 58, 116, 114, 117>>,
    \* prose before the object
    <<83, 117, 114, 101, 58, 32, 123, 34, 114, 101, 116, 114, 121, 34, 58, 116, 114, 117, 101, 125>>,
    \* text after the object
    <<123, 34, 114, 101, 116, 114, 121, 34, 58, 116, 114, 117, 101, 125, 32, 111, 107>>,
    \* an object with a trailing comma
    <<123, 34, 114, 101, 116, 114, 121, 34, 58, 116, 114, 117, 101, 44, 125>>,
    \* null
    <<110, 117, 108, 108>>,
    \* a number
    <<49, 46, 53>>,
    \* a string
    <<34, 115, 34>>,
    \* an array
    <<91, 116, 114, 117, 101, 93>>,
    \* an object naming errorMessage and similarFailures
    <<32, 123, 34, 101, 114, 114, 111, 114, 77, 101, 115, 115, 97, 103, 101, 34, 58, 34, 120, 34, 44, 34, 115, 105, 109, 105, 108, 97, 114, 70, 97, 105, 108, 117, 114, 101, 115, 34, 58, 55, 125>> }

\* the call analyzeFailure(fn.a) returns, fn.b holding what retrieval and
\* generation gave it
AnalyzeCall ==
  /\ fn.op = "call analyzeFailure"
  /\ fn' = [fn EXCEPT !.op = "analyzeFailure",
                      !.out = AnalyzeFailure(fn.a, fn.b.results, fn.b.response)]
  /\ UNCHANGED <<storeVars, pluginVars, indexVars, prov, batch, options>>

InitAnalysis ==
  /\ StoreInitState /\ PluginInitState
  /\ batch = NoBatch /\ options = DefaultOptions
  /\ \E errorLog \in ErrorLogs, results \in SeqsUpTo(RerankResults, 1),
        response \in Responses :
       fn = [ op |-> "call analyzeFailure", a |-> errorLog,
              b |-> [results |-> results, response |-> response], out |-> <<>> ]

NextAnalysis == AnalyzeCall

SpecAnalysis == InitAnalysis /\ [][NextAnalysis]_vars

\* JSON.parse would throw on the response analyzeFailure was given
Unparsable == ~JSONparseText(fn.b.response).ok

\* C19: for a generation response that cannot be parsed, analyzeFailure
\* returns an analysis whose suggestion is the response as it came, whose
\* retry is false and whose errorMessage is the error log given.
C19_UnparsableResponseFallback ==
  (fn.op = "analyzeFailure" /\ Unparsable) =>
    /\ {KeySuggestion, KeyRetry, KeyErrorMessage} \subseteq DOMAIN fn.out
    /\ fn.out[KeySuggestion] = Js("string", fn.b.response)
    /\ fn.out[KeyRetry] = Js("boolean", FALSE)
    /\ fn.out[KeyErrorMessage] = Js("string", fn.a)

\* analyzeFailure was given a response that starts like an object and breaks
\* off, and returned it as the suggestion
C19_Witness ==
  /\ fn.op = "analyzeFailure" /\ Unparsable
  /\ At(fn.b.response, 1) = 123
  /\ fn.out[KeySuggestion] = Js("string", fn.b.response)
  /\ Len(fn.b.results) > 0

\* C30: whatever the generation response, a response that parses as JSON
\* (object, array, number, string, null) included, analyzeFailure returns an
\* analysis whose errorMessage is the error log given, whose similarFailures
\* are those made from the retrieval, and which has a suggestion and a
\* boolean retry.
C30_AnalysisKeepsItsFields ==
  fn.op = "analyzeFailure" =>
    /\ {KeyErrorMessage, KeySimilarFailures, KeySuggestion, KeyRetry} \subseteq DOMAIN fn.out
    /\ fn.out[KeyErrorMessage] = Js("string", fn.a)
    /\ fn.out[KeySimilarFailures] = SimilarFailures(fn.b.results)
    /\ fn.out[KeyRetry].t = "boolean"

----------------------------------------------------------------------------
(* What a completed search call was asked: its arguments with the defaults *)

SearchCompleted == res.op = "search" /\ res.ok
AskedQuery      == res.arg.query
AskedTopK       == Param(res.arg.topK, DefaultTopK)
AskedThreshold  == Param(res.arg.threshold, DefaultThreshold)
\* the score of the i-th record of the store against the query of the call
ScoreOfRow(i)   == CosineSimilarity(AskedQuery, StoreGetAllRecords(rows)[i].embedding)
Returns(i)      == \E j \in 1..Len(res.out) : res.out[j].record.id = rows[i].id

\* C1: the threshold is an inclusive lower bound. After every search, no
\* record scoring strictly below the threshold is returned, and a record
\* scoring exactly the threshold is returned unless the result is already
\* cut to topK records.
C1_ThresholdInclusive ==
  SearchCompleted =>
    \A i \in 1..Len(rows) :
      /\ ScoreOfRow(i) < AskedThreshold => ~Returns(i)
      /\ ScoreOfRow(i) = AskedThreshold => Returns(i) \/ Len(res.out) = AskedTopK

\* a search returned a record scoring exactly the threshold while the store
\* held a record scoring below it
C1_Witness ==
  /\ SearchCompleted
  /\ \E i \in 1..Len(rows) : ScoreOfRow(i) = AskedThreshold /\ Returns(i)
                             /\ AskedThreshold > 0
  /\ \E i \in 1..Len(rows) : ScoreOfRow(i) < AskedThreshold /\ ~Returns(i)

\* the rows that pass the threshold, and the rank of each: higher score
\* first, scan order among equal scores
Passing == {i \in 1..Len(rows) : ScoreOfRow(i) >= AskedThreshold}
RankedBefore(j, i) ==
  ScoreOfRow(j) > ScoreOfRow(i) \/ (ScoreOfRow(j) = ScoreOfRow(i) /\ j < i)
RankOf(i) == Cardinality({j \in Passing : RankedBefore(j, i)}) + 1

\* C2: search returns exactly the first topK records of the list of records
\* scoring at least the threshold, ordered by descending score with equal
\* scores in scan order; the result is a function of the store content, the
\* query, topK and the threshold.
C2_StableRanking ==
  SearchCompleted =>
    /\ Len(res.out) = Min(AskedTopK, Cardinality(Passing))
    /\ \A i \in Passing :
         RankOf(i) <= AskedTopK =>
           res.out[RankOf(i)] =
             [record |-> StoreGetAllRecords(rows)[i], score |-> ScoreOfRow(i)]

\* three records pass, the first two (in scan order) tie above the third,
\* and topK = 2 returns the two tied records in scan order
C2_Witness ==
  /\ SearchCompleted
  /\ AskedTopK = 2
  /\ Cardinality(Passing) = 3
  /\ ScoreOfRow(1) = ScoreOfRow(2) /\ ScoreOfRow(2) > ScoreOfRow(3)
  /\ Len(res.out) = 2
  /\ res.out[1].record.id = rows[1].id /\ res.out[2].record.id = rows[2].id

----------------------------------------------------------------------------
(* Upsert and lifecycle of the store *)

\* a step that is the second of two successive addRecord calls with the same argument
SecondAddOfSame ==
  /\ res.op = "addRecord" /\ res.ok
  /\ res'.op = "addRecord" /\ res'.ok /\ res'.again

\* C3: upsert idempotence. The second of two addRecord(r) calls with identical
\* content leaves getRecordCount() as the first call left it, and
\* getRecord(r.id) then returns a record equal to r in every field (id, text,
\* embedding, sourceFile, metadata.created, metadata.author, metadata.type).
C3_UpsertIdempotent ==
  [][ SecondAddOfSame =>
        /\ StoreGetRecordCount(rows') = StoreGetRecordCount(rows)
        /\ StoreGetRecord(rows', res.arg.id) = <<res.arg>> ]_vars

\* C4: the store holds at most one record per id, and getRecord(id) returns
\* the content of the most recent addRecord for that id that was not followed
\* by deleteRecord(id) or clearAll (null when there is none).
C4_OneRecordPerIdLastWrite ==
  \A id \in Ids :
    /\ Cardinality({i \in 1..Len(rows) : rows[i].id = id}) <= 1
    /\ StoreGetRecord(rows, id) = lastAdded[id]

GuardedOps ==
  { "addRecord", "getRecord", "findByText", "getAllRecords", "getRecordCount",
    "search", "deleteRecord", "clearAll" }

\* C6: while the store is not initialized (never initialized, or closed), every
\* operation other than init and close fails with the not-initialized error
\* and changes neither the records nor the handle; once init() has succeeded
\* the operations succeed; close() and init() leave the stored records as
\* they are, so a reopened store serves the records stored before close().
C6_Lifecycle ==
  [][ /\ (~db /\ res'.op \in GuardedOps) =>
           ~res'.ok /\ res'.err = NotInitialized /\ rows' = rows /\ ~db'
      /\ (db /\ res'.op \in GuardedOps) => res'.ok
      /\ (res'.op \in {"init", "close"}) => rows' = rows
      /\ (res'.op = "getAllRecords" /\ res'.ok) => Len(res'.out) = Len(rows) ]_vars

\* a store holding records was closed and has been initialized again
C6_Witness ==
  /\ res.op = "init" /\ res.ok /\ ~res.arg.wasOpen
  /\ db /\ Len(rows) > 0

====
